---- MODULE Spec2Model ----
(***************************************************************************)
(* Florence singing-synthesis engine: the score decoder                    *)
(* (FlorenceScoreDecoder), the resolution of the speech engine             *)
(* (FlorenceSpeakGenerateor, TTSFactory), the pitch corrector              *)
(* (FlorenceCoder), the section connector (FlorenceWaveConnecter) and the  *)
(* Song they mutate in place, the output generator                         *)
(* (FlorenceOutputGenerater) and the engine that runs them in order        *)
(* (FlorenceEngine).  Samples are exact rationals                          *)
(* <<num, den>> (den > 0, lowest terms); sample rates are integers in Hz;  *)
(* pitches are integers in Hz.  alias records which buffers are one array  *)
(* object: <<t, k>> says that Track t's trackWaveData is the very array    *)
(* that is Section k's sectionSrc.                                         *)
(***************************************************************************)
EXTENDS Integers, Sequences, FiniteSets, TLC

VARIABLES pc, sample_rate, song, cursor, analysed, call, run, alias

vars == <<pc, sample_rate, song, cursor, analysed, call, run, alias>>

(***************************************************************************)
(* Bounds of the model                                                     *)
(***************************************************************************)
\* longest buffer handed directly to _crossfade_connect / _adjust_fundamental_frequency
MaxLen == 3
\* longest F0 contour the vocoder analysis returns
MaxFrames == 2
\* longest Section buffer handed directly to _connect_track_sections
MaxSecLen == 2
\* longest raw Word buffer of a Song
MaxWordLen == 2

\* sample values of the buffers tried (integers, as rationals n/1)
SampleVals == {-1, 0, 1}
SecVals == {1, 2}
WordVals == {1}
SynthVals == {-1, 1}
F0Vals == {0, 100}
\* sample rates a connector is constructed with (the constructor checks
\* nothing): -50 and -40 Hz give a window of -1 and of 0 samples, 0 and 40 Hz
\* a window of 0 samples, 50 Hz of one sample, 22050 Hz is the default
SampleRates == {-50, -40, 0, 40, 50, 100, 150, 22050}
\* target pitches (Hz), non-positive ones included, and one that scales a
\* 100 Hz frame above the upper bound of np.clip
Pitches == {-100, 0, 75, 150, 220, 440, 880}

(***************************************************************************)
(* Exact arithmetic on samples                                             *)
(***************************************************************************)
Abs(x) == IF x < 0 THEN -x ELSE x

Min(x, y) == IF x <= y THEN x ELSE y

RECURSIVE GCD(_, _)
GCD(x, y) == IF y = 0 THEN x ELSE GCD(y, x % y)

\* the rational n/d in lowest terms, d > 0
Rat(n, d) ==
    LET g == GCD(Abs(n), d)
    IN  IF n = 0 THEN <<0, 1>> ELSE <<n \div g, d \div g>>

R(n) == <<n, 1>>

RAdd(x, y) == Rat(x[1] * y[2] + y[1] * x[2], x[2] * y[2])

RMul(x, y) == Rat(x[1] * y[1], x[2] * y[2])

Zero == R(0)

(***************************************************************************)
(* Binary floating point: where a float64 or float32 result leaves the     *)
(* exact value                                                             *)
(***************************************************************************)
RECURSIVE Log2Floor(_, _)
\* the exponent of the double nearest n / d, n, d > 0: the largest e with
\* 2^e <= n / d
Log2Floor(n, d) ==
    IF n < d THEN Log2Floor(2 * n, d) - 1
    ELSE IF n \div 2 >= d THEN Log2Floor(n, 2 * d) + 1
    ELSE 0

RECURSIVE Pow2(_)
Pow2(e) == IF e = 0 THEN 1 ELSE 2 * Pow2(e - 1)

RECURSIVE ShiftMod(_, _, _)
\* (a * 2^k) mod m
ShiftMod(a, k, m) == IF k = 0 THEN a % m ELSE (2 * ShiftMod(a, k - 1, m)) % m

\* the rounding error of a / b, two positive integers, stored as a binary
\* float whose significand has bits + 1 bits: the s with
\* float(a / b) = a / b + s / (b * 2^k), k = bits - Log2Floor(a, b), the
\* significand rounded to nearest, ties to even
RoundingError(a, b, bits) ==
    LET k   == bits - Log2Floor(a, b)
        rem == ShiftMod(a, k, b)
        odd == ShiftMod(a, k, 2 * b) >= b
    IN  IF 2 * rem < b THEN -rem
        ELSE IF 2 * rem > b THEN b - rem
        ELSE IF odd THEN b - rem ELSE -rem

\* the rounding error of the float64 division a / b (53-bit significand)
DivisionError(a, b) == RoundingError(a, b, 52)

RECURSIVE ShiftDown(_, _)
\* floor(x / 2^k) for an integer x of either sign
ShiftDown(x, k) == IF k = 0 THEN x ELSE ShiftDown(x, k - 1) \div 2

\* x > y * 2^d for integers x, y >= 0 and an integer d of either sign
ExceedsScaled(x, y, d) == IF d >= 0 THEN x > y * Pow2(d) ELSE x * Pow2(-d) > y

\* the largest e such that the float64 values just below the integer N >= 1
\* lie in [2^e, 2^(e+1))
ExponentBelow(N) ==
    IF Pow2(Log2Floor(N, 1)) = N THEN Log2Floor(N, 1) - 1 ELSE Log2Floor(N, 1)

\* int(float(a / b) * m) for integers a, b > 0 and m >= 0, taken in float64:
\* float(a / b) is the double nearest a / b and the product is rounded to a
\* double before the fraction is dropped.  The result is the floor of the exact
\* product, except that an exact product N that is a whole number comes out as
\* N - 1 when float(a / b) lies below a / b by more than half the step of the
\* doubles below N
IntOfProduct(a, b, m) ==
    LET N == (a * m) \div b
        s == DivisionError(a, b)
    IN  IF (a * m) % b # 0 \/ N = 0 \/ s >= 0 THEN N
        ELSE IF ExceedsScaled(2 * m * (-s), b, ExponentBelow(N) - Log2Floor(a, b))
        THEN N - 1
        ELSE N

\* all buffers of at most n samples with values in vals
BuffersOf(vals, n) == UNION {[1..k -> {R(v) : v \in vals}] : k \in 0..n}

\* np.zeros(n) / np.zeros_like(audio)
Zeros(n) == [i \in 1..n |-> Zero]

AllZero(buf) == \A i \in 1..Len(buf) : buf[i] = Zero

\* Optional[np.ndarray]
None == [has |-> FALSE, buf |-> <<>>]

Some(b) == [has |-> TRUE, buf |-> b]

(***************************************************************************)
(* FlorenceWaveConnecter                                                   *)
(***************************************************************************)
\* FlorenceWaveConnecter.__init__ default window_size = 0.02 s, in ms
window_size_ms == 20

\* mutant: the window rounded up instead of truncated
WindowSamples_RoundUp(ms, sr) == (ms * sr + 999) \div 1000

\* int(overlap_duration * self.sample_rate), the duration (> 0) given in ms:
\* the float64 product, its fraction dropped toward zero at either sign of
\* the rate
WindowSamples(ms, sr) ==
    IF sr >= 0 THEN IntOfProduct(ms, 1000, sr) ELSE -IntOfProduct(ms, 1000, -sr)

\* overlap_samples = min(overlap_samples, len(audio1), len(audio2))
OverlapSamples(a, b, ms, sr) == Min(WindowSamples(ms, sr), Min(Len(a), Len(b)))

\* mutant: np.linspace(1, 0, n, endpoint=False)
FadeOut_NoEndpoint(n, i) == Rat(n - i, n)

\* np.linspace(1, 0, n)[i] for i in 0..n-1; a single point is the start value
FadeOut(n, i) == IF n = 1 THEN R(1) ELSE Rat(n - 1 - i, n - 1)

\* mutant: the fade-in built as a second fade-out
FadeIn_Mirrored(n, i) == IF n = 1 THEN R(1) ELSE Rat(n - 1 - i, n - 1)

\* np.linspace(0, 1, n)[i] for i in 0..n-1; a single point is the start value
FadeIn(n, i) == IF n = 1 THEN R(0) ELSE Rat(i, n - 1)

\* mutant: both buffers weighted one half over the whole overlap
CrossfadeConnect_EvenMix(a, b, ms, sr) ==
    LET n  == OverlapSamples(a, b, ms, sr)
        la == Len(a)
        lb == Len(b)
    IN  IF n <= 0
        THEN a \o b
        ELSE [k \in 1..(la + lb - n) |->
                IF k <= la - n THEN a[k]
                ELSE IF k <= la
                     THEN RMul(RAdd(a[k], b[k - (la - n)]), Rat(1, 2))
                     ELSE b[k - la + n]]

\* _crossfade_connect(audio1, audio2, overlap_duration) at sample rate sr
CrossfadeConnect(a, b, ms, sr) ==
    LET n  == OverlapSamples(a, b, ms, sr)
        la == Len(a)
        lb == Len(b)
    IN  IF n <= 0
        THEN a \o b
        ELSE [k \in 1..(la + lb - n) |->
                IF k <= la - n THEN a[k]
                ELSE IF k <= la
                     THEN LET i == k - (la - n) - 1
                          IN  RAdd(RMul(a[la - n + i + 1], FadeOut(n, i)),
                                   RMul(b[i + 1], FadeIn(n, i)))
                     ELSE b[k - la + n]]

(***************************************************************************)
(* FlorenceCoder                                                           *)
(***************************************************************************)
\* the assumed mean speech pitch of _fallback_processing: target_f0 / 150.0
reference_pitch == 150

\* np.clip bounds of the modified F0 contour
f0_floor == 40

f0_ceil == 800

RLess(x, y) == x[1] * y[2] < y[1] * x[2]

\* np.clip(x, lo, hi) on one rational value, lo and hi integers
RClip(x, lo, hi) == IF RLess(x, R(lo)) THEN R(lo) ELSE IF RLess(R(hi), x) THEN R(hi) ELSE x

\* int(x / y) for integers x >= 0, y # 0: truncation toward zero
TruncDiv(x, y) == IF y > 0 THEN x \div y ELSE -(x \div (-y))

\* round half to even of n / d, n >= 0, d > 0 (np.round)
RoundHalfEven(n, d) ==
    LET q == n \div d
        r == n % d
    IN  IF 2 * r < d THEN q
        ELSE IF 2 * r > d THEN q + 1
        ELSE IF q % 2 = 0 THEN q ELSE q + 1

\* np.round(np.linspace(0, L - 1, M))[i], i in 0..M-1, L >= 1, M >= 1.  linspace
\* is arange(M) * step with step = float((L - 1) / (M - 1)) and its last
\* element set to L - 1.  The float64 product differs from i * (L - 1) / (M - 1)
\* by less than any distance to a rounding boundary unless that value is
\* exactly half-way between two integers; there the rounding error of step
\* decides whether the product is the tie itself (np.round goes to the even
\* neighbour), or a float64 below or above it
LinspaceRound(L, M, i) ==
    IF M = 1 \/ L = 1 THEN 0
    ELSE IF i = M - 1 THEN L - 1
    ELSE LET a  == L - 1
             b  == M - 1
             q  == (i * a) \div b
             s  == DivisionError(a, b)
             eS == Log2Floor(a, b)
             eT == Log2Floor(2 * q + 1, 2)
         IN  IF 2 * ((i * a) % b) # b \/ s = 0 THEN RoundHalfEven(i * a, b)
             ELSE IF s < 0
                  THEN IF ExceedsScaled(2 * i * (-s), b,
                                        (IF q = 0 THEN eT - 1 ELSE eT) - eS)
                       THEN q ELSE RoundHalfEven(i * a, b)
             ELSE IF ExceedsScaled(2 * i * s, b, eT - eS)
                  THEN q + 1 ELSE RoundHalfEven(i * a, b)

\* np.round(np.linspace(0, L - 1, M)).astype(int)[i], i in 0..M-1, then np.clip
ResampleIndex(L, M, i) ==
    LET raw == LinspaceRound(L, M, i)
    IN  IF raw < 0 THEN 0 ELSE IF raw > L - 1 THEN L - 1 ELSE raw

\* mutant: energy >= 0 on a non-empty buffer
EnergyPositive_NonEmpty(audio) == Len(audio) > 0

\* energy = np.sqrt(np.mean(audio ** 2)); energy > 0 (nan for an empty buffer)
EnergyPositive(audio) == \E i \in 1..Len(audio) : audio[i] # Zero

Returned(buf) == [raised |-> FALSE, error |-> "none", value |-> buf]

Raised(e) == [raised |-> TRUE, error |-> e, value |-> <<>>]

\* new_length = int(len(audio) / pitch_ratio), pitch_ratio = target_f0 / 150.0,
\* both divisions in float64, target_f0 # 0.  The result is the exact quotient
\* truncated toward zero, except where L * 150 / target_f0 is a whole number N
\* and pitch_ratio was rounded up so far that L / pitch_ratio is a float64
\* below N: int() then gives N - 1
NewLength(L, target_f0) ==
    LET T    == Abs(target_f0)
        sign == IF target_f0 > 0 THEN 1 ELSE -1
        N    == (L * reference_pitch) \div T
        s    == DivisionError(T, reference_pitch)
    IN  IF (L * reference_pitch) % T # 0 \/ N = 0 \/ s <= 0
        THEN TruncDiv(L * reference_pitch, target_f0)
        ELSE IF ExceedsScaled(2 * s * N, T,
                              ExponentBelow(N) - Log2Floor(T, reference_pitch))
        THEN sign * (N - 1)
        ELSE sign * N

\* stretched = audio[indices]
Stretched(audio, M) == [k \in 1..M |-> audio[ResampleIndex(Len(audio), M, k - 1) + 1]]

\* np.tile(stretched, repeats)[:L]
TileTo(stretched, L) == [k \in 1..L |-> stretched[((k - 1) % Len(stretched)) + 1]]

\* _fallback_processing(audio, target_f0)
FallbackProcessing(audio, target_f0) ==
    LET L == Len(audio)
    IN  IF ~EnergyPositive(audio) THEN Returned(Zeros(L))
        ELSE IF target_f0 = 0 THEN Raised("ZeroDivisionError")
        ELSE LET M == NewLength(L, target_f0)
             IN  IF M < 0 THEN Raised("ValueError")
                 ELSE IF M > L THEN Returned(SubSeq(Stretched(audio, M), 1, L))
                 ELSE IF M = 0 THEN Raised("ZeroDivisionError")
                 ELSE Returned(TileTo(Stretched(audio, M), L))

\* what the external vocoder (pyworld) does on one call sequence:
\* dio/stonemask/cheaptrick/d4c raise or give an F0 contour (Hz per frame),
\* synthesize raises or gives a buffer of some length
AnalysisFails == [analysis |-> "raise", f0 |-> <<>>, synthesis |-> "none", synth |-> <<>>]

Analysed(c) == [analysis |-> "ok", f0 |-> c, synthesis |-> "none", synth |-> <<>>]

SynthesisFails(c) == [analysis |-> "ok", f0 |-> c, synthesis |-> "raise", synth |-> <<>>]

Synthesized(c, s) == [analysis |-> "ok", f0 |-> c, synthesis |-> "ok", synth |-> s]

Voiced(c) == \E i \in 1..Len(c) : c[i] > 0

Contours(n) == UNION {[1..k -> F0Vals] : k \in 0..n}

VocoderOutcomes(frames, synths) ==
    {AnalysisFails}
      \cup {Analysed(c) : c \in {x \in Contours(frames) : ~Voiced(x)}}
      \cup {SynthesisFails(c) : c \in {x \in Contours(frames) : Voiced(x)}}
      \cup {Synthesized(c, s) : c \in {x \in Contours(frames) : Voiced(x)}, s \in synths}

RECURSIVE SumVoiced(_, _)
SumVoiced(c, k) == IF k = 0 THEN 0 ELSE SumVoiced(c, k - 1) + (IF c[k] > 0 THEN c[k] ELSE 0)

CountVoiced(c) == Cardinality({i \in 1..Len(c) : c[i] > 0})

\* original_f0_mean = np.mean(f0[f0 > 0])
OriginalF0Mean(c) == Rat(SumVoiced(c, Len(c)), CountVoiced(c))

\* mutant: the scaled contour is passed on without np.clip
ModifiedF0_Unclamped(c, target_f0) ==
    LET m == OriginalF0Mean(c)
    IN  [i \in 1..Len(c) |-> Rat(c[i] * target_f0 * m[2], m[1])]

\* modified_f0 = np.clip(f0 * (target_f0 / original_f0_mean), 40, 800)
ModifiedF0(c, target_f0) ==
    LET m == OriginalF0Mean(c)
    IN  [i \in 1..Len(c) |-> RClip(Rat(c[i] * target_f0 * m[2], m[1]), f0_floor, f0_ceil)]

\* mutant: a short synthesized buffer is not padded
MatchLength_NoPad(synth, L) == IF Len(synth) > L THEN SubSeq(synth, 1, L) ELSE synth

\* step 9: truncate or zero-pad the synthesized buffer to len(audio)
MatchLength(synth, L) ==
    IF Len(synth) > L THEN SubSeq(synth, 1, L)
    ELSE IF Len(synth) < L THEN synth \o Zeros(L - Len(synth))
    ELSE synth

\* the path _adjust_fundamental_frequency takes under vocoder outcome voc
AdjustPath(voc) ==
    IF voc.analysis = "raise" THEN "fallback"
    ELSE IF ~Voiced(voc.f0) THEN "silence"
    ELSE IF voc.synthesis = "raise" THEN "fallback"
    ELSE "vocoder"

\* _adjust_fundamental_frequency(audio, target_f0) under vocoder outcome voc
AdjustFundamentalFrequency(audio, target_f0, voc) ==
    IF AdjustPath(voc) = "fallback" THEN FallbackProcessing(audio, target_f0)
    ELSE IF AdjustPath(voc) = "silence" THEN Returned(Zeros(Len(audio)))
    ELSE Returned(MatchLength(voc.synth, Len(audio)))

\* silence_duration = int(0.01 * self.sample_rate), the 10 ms given in ms
silence_ms == 10

\* mutant: no silence between the segments
SilenceSamples_None(sr) == 0

\* silence_duration = int(0.01 * self.sample_rate): the float64 product, its
\* fraction dropped toward zero at either sign of the rate
SilenceSamples(sr) ==
    IF sr >= 0 THEN IntOfProduct(silence_ms, 1000, sr)
    ELSE -IntOfProduct(silence_ms, 1000, -sr)

RECURSIVE ConcatWithSilence(_, _, _)
\* the loop of _connect_segments over segments[1:], k segments joined so far;
\* np.zeros(silence_duration) raises ValueError for a negative count
ConcatWithSilence(segments, k, sr) ==
    IF k = 1 THEN Returned(segments[1])
    ELSE LET connected == ConcatWithSilence(segments, k - 1, sr)
         IN  IF connected.raised THEN connected
             ELSE IF SilenceSamples(sr) < 0 THEN Raised("ValueError")
             ELSE Returned(connected.value \o Zeros(SilenceSamples(sr)) \o segments[k])

\* _connect_segments(segments): the joined buffer, or the ValueError
ConnectSegments(segments, sr) ==
    IF Len(segments) = 0 THEN Returned(<<>>)
    ELSE IF Len(segments) = 1 THEN Returned(segments[1])
    ELSE ConcatWithSilence(segments, Len(segments), sr)

\* mutant: only None is skipped, an empty buffer is pitch-corrected
HasAudio_NotNone(word) == word.oriWave.has

\* word.oriWave is not None and len(word.oriWave) > 0
HasAudio(word) == word.oriWave.has /\ Len(word.oriWave.buf) > 0

RECURSIVE ProcessWords(_, _, _)
\* the loop of _process_section over wordList[1..k]: the segments appended, the
\* number of _adjust_fundamental_frequency calls made, and the exception that
\* ended it, if any; outs[i] is what the vocoder does on word i
ProcessWords(wordList, outs, k) ==
    IF k = 0 THEN [raised |-> FALSE, error |-> "none", segments |-> <<>>, calls |-> 0]
    ELSE LET before == ProcessWords(wordList, outs, k - 1)
             word   == wordList[k]
         IN  IF before.raised \/ ~HasAudio(word) THEN before
             ELSE LET r == AdjustFundamentalFrequency(word.oriWave.buf, word.pitch, outs[k])
                  IN  IF r.raised
                      THEN [before EXCEPT !.raised = TRUE, !.error = r.error,
                                          !.calls = @ + 1]
                      ELSE [before EXCEPT !.segments = Append(@, r.value),
                                          !.calls = @ + 1]

\* the exception _process_section(section) ends with, "none" when it returns:
\* that of a pitch correction, or the ValueError of _connect_segments
ProcessSectionError(section, outs, sr) ==
    LET done == ProcessWords(section.wordList, outs, Len(section.wordList))
    IN  IF done.raised THEN done.error
        ELSE IF Len(done.segments) = 0 THEN "none"
        ELSE ConnectSegments(done.segments, sr).error

\* mutant: the raw buffer of every Word is released once the Section is joined
ProcessSection_Consuming(section, outs, sr) ==
    LET done == ProcessWords(section.wordList, outs, Len(section.wordList))
    IN  IF ProcessSectionError(section, outs, sr) # "none" \/ Len(done.segments) = 0
        THEN section
        ELSE [wordList |-> [w \in 1..Len(section.wordList) |->
                               [section.wordList[w] EXCEPT !.oriWave = None]],
              sectionSrc |-> Some(ConnectSegments(done.segments, sr).value)]

\* _process_section(section): the section afterwards (unchanged when a pitch
\* correction or the join raised)
ProcessSection(section, outs, sr) ==
    LET done == ProcessWords(section.wordList, outs, Len(section.wordList))
    IN  IF ProcessSectionError(section, outs, sr) # "none" \/ Len(done.segments) = 0
        THEN section
        ELSE [section EXCEPT !.sectionSrc =
                                 Some(ConnectSegments(done.segments, sr).value)]

RECURSIVE ConnectLoop_Swapped(_, _, _)
\* mutant: the arguments of _crossfade_connect exchanged
ConnectLoop_Swapped(sectionList, k, sr) ==
    IF k = 0 THEN None
    ELSE LET connected_audio == ConnectLoop_Swapped(sectionList, k - 1, sr)
             section         == sectionList[k]
         IN  IF ~section.sectionSrc.has THEN connected_audio
             ELSE IF ~connected_audio.has THEN section.sectionSrc
             ELSE Some(CrossfadeConnect(section.sectionSrc.buf, connected_audio.buf,
                                        window_size_ms, sr))

RECURSIVE ConnectLoop(_, _, _)
\* the loop of _connect_track_sections over sectionList[1..k]: connected_audio
ConnectLoop(sectionList, k, sr) ==
    IF k = 0 THEN None
    ELSE LET connected_audio == ConnectLoop(sectionList, k - 1, sr)
             section         == sectionList[k]
         IN  IF ~section.sectionSrc.has THEN connected_audio
             ELSE IF ~connected_audio.has THEN section.sectionSrc
             ELSE Some(CrossfadeConnect(connected_audio.buf, section.sectionSrc.buf,
                                        window_size_ms, sr))

RECURSIVE ConnectAlias(_, _)
\* which array object connected_audio is after the loop has visited
\* sectionList[1..k]: k' when it is the sectionSrc of Section k' itself
\* (connected_audio = section_audio), 0 when it is None or the new array
\* _crossfade_connect returned
ConnectAlias(sectionList, k) ==
    IF k = 0 THEN 0
    ELSE LET before  == ConnectAlias(sectionList, k - 1)
             section == sectionList[k]
             first   == \A j \in 1..(k - 1) : ~sectionList[j].sectionSrc.has
         IN  IF ~section.sectionSrc.has THEN before
             ELSE IF first THEN k
             ELSE 0

\* the (Track, Section) pairs that share one array after
\* track.trackWaveData = connected_audio, track being the t-th of the Song
SharedWith(t, track) ==
    LET k == ConnectAlias(track.sectionList, Len(track.sectionList))
    IN  IF k = 0 THEN {} ELSE {<<t, k>>}

\* current_time = len(section_audio) / self.sample_rate, evaluated for the
\* first Section of the Track that has a buffer: ZeroDivisionError at rate 0
ConnectRaises(track, sr) ==
    sr = 0 /\ \E k \in 1..Len(track.sectionList) : track.sectionList[k].sectionSrc.has

\* _connect_track_sections(track): the track afterwards, when it returns
ConnectTrackSections(track, sr) ==
    IF Len(track.sectionList) = 0 THEN track
    ELSE [track EXCEPT !.trackWaveData =
                           ConnectLoop(track.sectionList, Len(track.sectionList), sr)]

(***************************************************************************)
(* The Song: Song -> Track -> Section -> Word                              *)
(***************************************************************************)
Time(s, e) == [start |-> s, end |-> e]

\* a text (Word.lrc, a lyric) is the sequence of the code points of its
\* characters
Text(codes) == codes

\* "la", the lyric of the Words tried
LyricLow == Text(<<108, 97>>)

Word(p, t, l, w) == [pitch |-> p, time |-> t, lrc |-> l, oriWave |-> w]

Section(ws) == [wordList |-> ws, sectionSrc |-> None]

Track(ss) == [sectionList |-> ss, trackWaveData |-> None]

\* target pitches of the Words of a Song
WordPitches == {0, 220}

\* raw buffers the speech stage leaves in Word.oriWave
WordWaves == {None} \cup {Some(b) : b \in BuffersOf(WordVals, MaxWordLen)}

\* quarter_duration_ms = 500: one quarter note at the assumed 120 BPM
quarter_duration_ms == 500

\* the time span of the w-th Word of a Section of consecutive quarter notes
QuarterAt(w) == Time((w - 1) * quarter_duration_ms, w * quarter_duration_ms)

Words == {Word(p, QuarterAt(1), LyricLow, w) : p \in WordPitches, w \in WordWaves}

\* shapes of the Songs tried: per Track, the number of Words of each Section
SongShapes ==
    { <<>>,
      << <<>> >>,
      << <<2>> >>,
      << <<1, 1>> >>,
      << <<0, 1>> >>,
      << <<1, 1, 1>> >>,
      << <<1>>, <<1>> >>,
      << <<2>>, <<>> >> }

RECURSIVE SumSeq(_, _)
SumSeq(q, k) == IF k = 0 THEN 0 ELSE SumSeq(q, k - 1) + q[k]

RECURSIVE WordsBefore(_, _)
\* number of Words in Tracks 1..t of a shape
WordsBefore(shape, t) ==
    IF t = 0 THEN 0 ELSE WordsBefore(shape, t - 1) + SumSeq(shape[t], Len(shape[t]))

\* the Song of a shape whose Words, in score order, are ws[1], ws[2], ...
SongOf(shape, ws) ==
    [trackList |->
        [t \in 1..Len(shape) |->
            Track([s \in 1..Len(shape[t]) |->
                Section([w \in 1..shape[t][s] |->
                    [ws[WordsBefore(shape, t - 1) + SumSeq(shape[t], s - 1) + w]
                        EXCEPT !.time = QuarterAt(w)]])])]]

Songs ==
    UNION {{SongOf(shape, ws) : ws \in [1..WordsBefore(shape, Len(shape)) -> Words]}
              : shape \in SongShapes}

RECURSIVE PositionsUpTo(_, _)
\* the (track, section) pairs in the order process_song visits them
PositionsUpTo(s, t) ==
    IF t = 0 THEN <<>>
    ELSE PositionsUpTo(s, t - 1)
           \o [k \in 1..Len(s.trackList[t].sectionList) |-> <<t, k>>]

Positions(s) == PositionsUpTo(s, Len(s.trackList))

(***************************************************************************)
(* FlorenceOutputGenerater                                                 *)
(***************************************************************************)
\* most Tracks of a Song handed directly to _merge_tracks
MaxTracks == 2
\* longest Track buffer handed directly to _merge_tracks
MaxTrackLen == 2

\* sample i (from 1) of a Track in the mix: a Track without a buffer, or with a
\* buffer that ended before i, adds nothing to final_audio[i]
TrackSample_Held(track, i) ==
    IF ~track.trackWaveData.has \/ Len(track.trackWaveData.buf) = 0 THEN Zero
    ELSE IF i <= Len(track.trackWaveData.buf) THEN track.trackWaveData.buf[i]
    ELSE track.trackWaveData.buf[Len(track.trackWaveData.buf)]

TrackSample(track, i) ==
    IF track.trackWaveData.has /\ i <= Len(track.trackWaveData.buf)
    THEN track.trackWaveData.buf[i]
    ELSE Zero

RECURSIVE MaxLength(_, _)
\* the first loop of _merge_tracks over trackList[1..k]: max_length
MaxLength(trackList, k) ==
    IF k = 0 THEN 0
    ELSE LET max_length == MaxLength(trackList, k - 1)
             track      == trackList[k]
         IN  IF track.trackWaveData.has /\ Len(track.trackWaveData.buf) > max_length
             THEN Len(track.trackWaveData.buf)
             ELSE max_length

RECURSIVE MergeLoop(_, _, _)
\* the second loop of _merge_tracks over trackList[1..k]: final_audio
MergeLoop(trackList, k, max_length) ==
    IF k = 0 THEN Zeros(max_length)
    ELSE LET final_audio == MergeLoop(trackList, k - 1, max_length)
         IN  [i \in 1..max_length |-> RAdd(final_audio[i], TrackSample(trackList[k], i))]

\* _merge_tracks(song)
MergeTracks(s) ==
    IF Len(s.trackList) = 0 THEN <<>>
    ELSE LET max_length == MaxLength(s.trackList, Len(s.trackList))
         IN  IF max_length = 0 THEN <<>>
             ELSE MergeLoop(s.trackList, Len(s.trackList), max_length)

RAbs(x) == <<Abs(x[1]), x[2]>>

RNeg(x) == <<-x[1], x[2]>>

RSign(x) == IF x[1] > 0 THEN 1 ELSE IF x[1] < 0 THEN -1 ELSE 0

RLeq(x, y) == x[1] * y[2] <= y[1] * x[2]

\* _prevent_clipping: threshold = 0.95
threshold == Rat(19, 20)

\* _prevent_clipping: ratio = 20.0
ratio == 20

\* mutant: a hard limiter at the threshold
SoftLimit_Hard(s) ==
    IF RLess(threshold, RAbs(s)) THEN RMul(R(RSign(s)), threshold) ELSE s

\* one sample of _prevent_clipping:
\* sign(s) * (threshold + (|s| - threshold) / ratio) where |s| > threshold
SoftLimit(s) ==
    IF RLess(threshold, RAbs(s))
    THEN RMul(R(RSign(s)),
              RAdd(threshold, RMul(RAdd(RAbs(s), RNeg(threshold)), Rat(1, ratio))))
    ELSE s

\* _prevent_clipping(audio)
PreventClipping(audio) == [i \in 1..Len(audio) |-> SoftLimit(audio[i])]

\* _normalize_audio: target_rms = 0.1
target_rms == Rat(1, 10)

\* _normalize_audio: max_gain = 4.0
max_gain == 4

\* x + y over the least common denominator
RAddLcm(x, y) ==
    LET g == GCD(x[2], y[2])
    IN  Rat(x[1] * (y[2] \div g) + y[1] * (x[2] \div g), (x[2] \div g) * y[2])

\* a float32 sample below the rationals above: sign * 2^-k with 64 <= k <= 149
\* (2^-149 is the smallest float32), held as the one-element tuple <<sign * k>>
TinySample(sign, k) == <<sign * k>>

IsTiny(s) == Len(s) = 1

RECURSIVE AtLeastPow2(_, _, _)
\* n / d >= 2^-k, for n >= 0, d > 0 and k >= 0
AtLeastPow2(n, d, k) ==
    IF n >= d THEN TRUE
    ELSE IF k = 0 THEN FALSE
    ELSE AtLeastPow2(2 * n, d, k - 1)

\* the samples _normalize_audio is given here: 0, a rational of size 2^-31 or
\* more, or a tiny sample
IsSample(s) ==
    IF IsTiny(s) THEN Abs(s[1]) \in 64..149
    ELSE s[1] = 0 \/ AtLeastPow2(Abs(s[1]), s[2], 31)

\* one element of audio ** 2, taken in float32, in units of 2^-149: the square
\* of a tiny sample 2^-k is 2^-2k down to 2^-148 and underflows to 0 below
\* that (2^-150 lies halfway between 0 and 2^-149 and is rounded to 0)
TinySquare(s) ==
    CASE IsSample(s) ->
        IF IsTiny(s) /\ 2 * Abs(s[1]) <= 149 THEN Pow2(149 - 2 * Abs(s[1])) ELSE 0

RECURSIVE TinySquares(_, _, _)
\* np.sum(audio[lo-1:hi] ** 2) over the tiny samples, in units of 2^-149, the
\* sum taken pairwise (exact, so in any order)
TinySquares(audio, lo, hi) ==
    IF lo > hi THEN 0
    ELSE IF lo = hi THEN TinySquare(audio[lo])
    ELSE LET mid == (lo + hi) \div 2
         IN  TinySquares(audio, lo, mid) + TinySquares(audio, mid + 1, hi)

\* current_rms > 0, current_rms = np.sqrt(np.mean(audio ** 2)) in float32: the
\* square of a rational sample (2^-62 or more) keeps the mean above 0; with
\* tiny samples alone the mean is the sum of their float32 squares divided by
\* len(audio), which is rounded to 0 when it is 2^-150 or less
RmsPositive(audio) ==
    CASE \A i \in 1..Len(audio) : IsSample(audio[i]) ->
        \/ \E i \in 1..Len(audio) : ~IsTiny(audio[i]) /\ audio[i][1] # 0
        \/ 2 * TinySquares(audio, 1, Len(audio)) > Len(audio)

\* the square of a sample as it counts in the mean beside the rational
\* samples: the square of a tiny sample (2^-128 or less) is lost in the float32
\* sum beside the square of a rational one
SquareOf(s) == IF IsTiny(s) THEN Zero ELSE RMul(s, s)

RECURSIVE SumSquares(_, _, _)
\* np.sum(audio[lo-1:hi] ** 2), the sum taken pairwise (exact, so in any order)
SumSquares(audio, lo, hi) ==
    IF lo > hi THEN Zero
    ELSE IF lo = hi THEN SquareOf(audio[lo])
    ELSE LET mid == (lo + hi) \div 2
         IN  RAddLcm(SumSquares(audio, lo, mid), SumSquares(audio, mid + 1, hi))

\* np.mean(audio ** 2), the square of current_rms (len(audio) > 0)
MeanSquare(audio) == RMul(SumSquares(audio, 1, Len(audio)), Rat(1, Len(audio)))

\* the square of the gain _normalize_audio applies: with current_rms > 0,
\* gain = min(target_rms / current_rms, max_gain), both sides positive, so
\* gain^2 = min(target_rms^2 / mean(audio^2), max_gain^2), which is max_gain^2
\* for a buffer of tiny samples (current_rms is 2^-64 or less); otherwise,
\* current_rms being 0.0, the buffer is returned as it is (gain 1)
GainSquared(audio) ==
    IF Len(audio) = 0 THEN R(1)
    ELSE IF ~RmsPositive(audio) THEN R(1)
    ELSE LET ms == MeanSquare(audio)
         IN  IF ms[1] > 0
             THEN LET g2 == Rat(target_rms[1] * target_rms[1] * ms[2],
                                target_rms[2] * target_rms[2] * ms[1])
                  IN  IF RLess(R(max_gain * max_gain), g2)
                      THEN R(max_gain * max_gain) ELSE g2
             ELSE R(max_gain * max_gain)

\* _normalize_audio(audio): audio * gain, the gain held by its square
NormalizeAudio(audio) == [audio |-> audio, gain2 |-> GainSquared(audio)]

\* _process_audio(audio): an empty buffer is returned as it is
ProcessAudio(audio) ==
    IF Len(audio) = 0 THEN [audio |-> audio, gain2 |-> R(1)]
    ELSE NormalizeAudio(PreventClipping(audio))

\* the square of sample i of a buffer audio * gain, the sample a rational
SquareAt(processed, i) ==
    RMul(RMul(processed.audio[i], processed.audio[i]), processed.gain2)

\* (audio_data * 32767): full scale of a signed 16-bit sample
int16_scale == 32767

\* mutant: no hard clip before the conversion
ClipUnit_None(s) == s

\* np.clip(audio_data, -1.0, 1.0) on one sample
ClipUnit(s) == RClip(s, -1, 1)

\* (s * 32767).astype(np.int16) for the float32 sample s nearest p / q > 0.
\* The buffer is float32 (np.zeros(..., dtype=np.float32) in _merge_tracks),
\* so s = p / q + err / (q * 2^k), k = 23 - Log2Floor(p, q), and the product
\* y = s * 32767 is rounded to float32 before the fraction is dropped.  The
\* result is the largest integer N with y >= N - h, h half the float32 step
\* below N (a tie goes to N, whose significand is even); N is the floor N0 of
\* 32767 * p / q, or one more, or one less
ScaleFloat32(p, q) ==
    LET e   == Log2Floor(p, q)
        err == RoundingError(p, q, 23)
        N0  == (int16_scale * p) \div q
        rho == (int16_scale * p) % q
        Reaches(N, j) ==
            LET eB == ExponentBelow(N)
            IN  j * q - rho <= ShiftDown(q + ShiftDown(int16_scale * err, eB - e - 1),
                                         24 - eB)
    IN  IF Reaches(N0 + 1, 1) THEN N0 + 1
        ELSE IF N0 = 0 THEN 0
        ELSE IF Reaches(N0, 0) THEN N0
        ELSE N0 - 1

\* (audio_data * 32767).astype(np.int16) on one sample of a float32 buffer
ToInt16(s) ==
    IF s[1] = 0 THEN 0
    ELSE IF s[1] > 0 THEN ScaleFloat32(s[1], s[2])
    ELSE -ScaleFloat32(-s[1], s[2])

\* one sample of _save_wav_file: (np.clip(s, -1, 1) * 32767).astype(np.int16)
QuantizeSample(s) == ToInt16(ClipUnit(s))

\* audio_int16 of _save_wav_file
Quantize(audio) == [i \in 1..Len(audio) |-> QuantizeSample(audio[i])]

(***************************************************************************)
(* FlorenceScoreDecoder                                                    *)
(***************************************************************************)
\* a note of part.flatten().notes: a Note or a Chord, its offset and its
\* duration in quarter lengths (rationals), the frequency of its pitch in Hz,
\* and its lyric, a text (<<>> when it has none)
Note(kind, offset, quarterLength, frequency, lyric) ==
    [kind |-> kind, offset |-> offset, quarterLength |-> quarterLength,
     frequency |-> frequency, lyric |-> lyric]

\* if freq < 130: the note is skipped
min_frequency == 130

\* int(float(q) * quarter_duration_ms) for a rational q >= 0 of quarter
\* lengths: float(q) is the double nearest q and the product is rounded to a
\* double before the fraction is dropped.  The result is the floor of the exact
\* product, except that an exact product N that is a whole number comes out as
\* N - 1 when float(q) lies below q by more than half the step of the doubles
\* below N
Milliseconds(q) ==
    IF q[1] = 0 THEN 0 ELSE IntOfProduct(q[1], q[2], quarter_duration_ms)

\* the lyrics tried: "La", "LA", the Han character U+5566, and that character
\* followed by a capital E with acute accent (U+00C9) and a fullwidth digit
\* one (U+FF11)
LyricLa == Text(<<76, 97>>)

LyricLA == Text(<<76, 65>>)

LyricHan == Text(<<21862>>)

LyricMixed == Text(<<21862, 201, 65297>>)

\* the characters a text may hold: Basic Latin and Latin-1 (U+0000..U+00FF),
\* Cyrillic (U+0400..U+044F), the Arabic-Indic digits (U+0660..U+0669), the
\* Han characters U+4E00..U+9FFF and the fullwidth forms U+FF01..U+FF5E.  The
\* operators on characters below are defined on these and on no other
InAlphabet(c) ==
    \/ c \in 0..255
    \/ c \in 1024..1103
    \/ c \in 1632..1641
    \/ c \in 19968..40959
    \/ c \in 65281..65374

IsHan(c) == c \in 19968..40959

\* text.isascii()
IsAscii(text) == \A i \in 1..Len(text) : text[i] < 128

\* str.lower() on one character: the capitals A..Z, the Latin-1 capitals
\* (U+00C0..U+00DE without the multiplication sign), the Cyrillic capitals
\* U+0400..U+040F and U+0410..U+042F, and the fullwidth capitals; every other
\* character of the alphabet is its own lower case
LowerChar(c) ==
    IF c \in 65..90 THEN c + 32
    ELSE IF c \in 192..222 /\ c # 215 THEN c + 32
    ELSE IF c \in 1024..1039 THEN c + 80
    ELSE IF c \in 1040..1071 THEN c + 32
    ELSE IF c \in 65313..65338 THEN c + 32
    ELSE CASE InAlphabet(c) -> c

\* text.lower()
Lower(text) == [i \in 1..Len(text) |-> LowerChar(text[i])]

\* the class \d of re on a str pattern: every Unicode decimal digit, of which
\* the alphabet holds 0..9, the Arabic-Indic and the fullwidth digits
IsDigit(c) ==
    CASE InAlphabet(c) -> c \in 48..57 \/ c \in 1632..1641 \/ c \in 65296..65305

\* the first reading xpinyin holds for a character, with its tone number:
\* U+5566 "la1", U+4F60 "ni3", U+597D "hao3"; <<>> for a character it does
\* not hold, which is every character of the alphabet that is not Han.  The
\* readings of the other Han characters are not given here
Reading(c) ==
    IF c = 21862 THEN <<108, 97, 49>>
    ELSE IF c = 20320 THEN <<110, 105, 51>>
    ELSE IF c = 22909 THEN <<104, 97, 111, 51>>
    ELSE CASE InAlphabet(c) /\ ~IsHan(c) -> <<>>

RECURSIVE GetPinyin(_, _)
\* self.pinyin_converter.get_pinyin(text, tone_marks='numbers') over
\* text[1..k]: each character xpinyin holds becomes its reading, the others
\* stay, and "-" separates the readings and the runs of other characters
GetPinyin(text, k) ==
    IF k = 0 THEN <<>>
    ELSE LET c    == text[k]
             held == Reading(c) # <<>>
             joins == k > 1 /\ ~held /\ Reading(text[k - 1]) = <<>>
         IN  GetPinyin(text, k - 1)
               \o (IF k = 1 \/ joins THEN <<>> ELSE <<45>>)
               \o (IF held THEN Reading(c) ELSE <<c>>)

\* re.sub(r'\d', '', pinyin)
RemoveDigits(text) == SelectSeq(text, LAMBDA c : ~IsDigit(c))

\* _convert_to_pinyin(text)
ConvertToPinyin(text) ==
    IF IsAscii(text) THEN Lower(text)
    ELSE Lower(RemoveDigits(GetPinyin(text, Len(text))))

\* mutant: adjacent notes are not compared
CheckOverlap_Off(words) == FALSE

\* _check_overlap(words) raises ValueError
CheckOverlap(words) ==
    \E i \in 1..(Len(words) - 1) : words[i].time.end > words[i + 1].time.start

RECURSIVE ProcessNotes(_, _)
\* the loop of _process_part over notes[1..k]: current_section_words, or the
\* ValueError of a note without a lyric
ProcessNotes(notes, k) ==
    IF k = 0 THEN [raised |-> FALSE, error |-> "none", words |-> <<>>]
    ELSE LET before     == ProcessNotes(notes, k - 1)
             note       == notes[k]
             start_time == Milliseconds(note.offset)
             duration   == Milliseconds(note.quarterLength)
         IN  IF before.raised THEN before
             ELSE IF note.kind # "Note" THEN before
             ELSE IF note.frequency < min_frequency THEN before
             ELSE IF note.lyric = <<>>
                  THEN [before EXCEPT !.raised = TRUE, !.error = "ValueError"]
             ELSE [before EXCEPT !.words =
                      Append(@, Word(note.frequency,
                                     Time(start_time, start_time + duration),
                                     ConvertToPinyin(note.lyric), None))]

\* _process_part(part): the Track, one Section holding every Word of the part
ProcessPart(notes) ==
    LET done == ProcessNotes(notes, Len(notes))
    IN  IF done.raised
        THEN [raised |-> TRUE, error |-> done.error, track |-> Track(<<>>)]
        ELSE IF done.words = <<>>
        THEN [raised |-> FALSE, error |-> "none", track |-> Track(<<>>)]
        ELSE IF CheckOverlap(done.words)
        THEN [raised |-> TRUE, error |-> "ValueError", track |-> Track(<<>>)]
        ELSE [raised |-> FALSE, error |-> "none",
              track |-> Track(<<Section(done.words)>>)]

RECURSIVE DecodeParts(_, _)
\* the loop of decode_score over score.parts[1..k]
DecodeParts(parts, k) ==
    IF k = 0 THEN [raised |-> FALSE, error |-> "none", song |-> [trackList |-> <<>>]]
    ELSE LET before == DecodeParts(parts, k - 1)
             part   == ProcessPart(parts[k])
         IN  IF before.raised THEN before
             ELSE IF part.raised
                  THEN [before EXCEPT !.raised = TRUE, !.error = part.error]
             ELSE [before EXCEPT !.song.trackList = Append(@, part.track)]

(***************************************************************************)
(* State                                                                   *)
(***************************************************************************)
NoCall == [op |-> "none"]

NoSong == [trackList |-> <<>>]

\* the output file {song.name}.wav: absent, left by an earlier run ("old"),
\* opened for writing and left without a complete header ("truncated"), left
\* with a header and fewer frames than it declares ("partial"), or written and
\* closed
NoFile == [state |-> "absent", frames |-> 0]

OldFile == [state |-> "old", frames |-> 1]

\* one run of the engine: the method called, the stages started so far, the
\* stage that raised, the output file, and what the method gave its caller
NoRun == [entry |-> "none", log |-> <<>>, failed |-> "none", file |-> NoFile,
          result |-> "none", score |-> <<>>, speech_rate |-> 0]

Init ==
    /\ pc = "start"
    /\ sample_rate = 22050
    /\ song = NoSong
    /\ cursor = 1
    /\ analysed = 0
    /\ call = NoCall
    /\ run = NoRun
    /\ alias = {}

\* a direct call of _crossfade_connect on a connector built with sample rate sr
CallCrossfade ==
    /\ pc = "start"
    /\ \E sr \in SampleRates, a \in BuffersOf(SampleVals, MaxLen),
          b \in BuffersOf(SampleVals, MaxLen) :
          /\ sample_rate' = sr
          /\ call' = [op |-> "crossfade", a |-> a, b |-> b,
                      result |-> CrossfadeConnect(a, b, window_size_ms, sr)]
    /\ pc' = "returned"
    /\ UNCHANGED <<song, cursor, analysed, run, alias>>

NextCrossfade == CallCrossfade

SpecCrossfade == Init /\ [][NextCrossfade]_vars

\* a direct call of _adjust_fundamental_frequency
CallAdjust ==
    /\ pc = "start"
    /\ \E audio \in BuffersOf(SampleVals, MaxLen), target \in Pitches,
          voc \in VocoderOutcomes(MaxFrames, BuffersOf(SynthVals, MaxLen + 1)) :
          call' = [op |-> "adjust", audio |-> audio, target_f0 |-> target, voc |-> voc,
                   path |-> AdjustPath(voc),
                   modified_f0 |-> IF AdjustPath(voc) = "vocoder"
                                   THEN ModifiedF0(voc.f0, target) ELSE <<>>,
                   out |-> AdjustFundamentalFrequency(audio, target, voc)]
    /\ pc' = "returned"
    /\ UNCHANGED <<sample_rate, song, cursor, analysed, run, alias>>

NextCoder == CallAdjust

SpecCoder == Init /\ [][NextCoder]_vars

\* sample rates of the pipeline runs: 10 ms of silence is 0, 1, 2 or 220 samples
PipelineRates == {-150, -50, 50, 100, 200, 22050}

\* what the vocoder may do on one Word of a pipeline run
PipelineOutcomes == VocoderOutcomes(1, BuffersOf({-1}, MaxWordLen + 1))

\* the Song as the decoder and the speech stage leave it
LoadSong ==
    /\ pc = "start"
    /\ \E sr \in PipelineRates, s \in Songs :
          /\ sample_rate' = sr
          /\ song' = s
    /\ pc' = "loaded"
    /\ UNCHANGED <<cursor, analysed, call, run, alias>>

\* process_song is entered: nothing is checked before the loop starts
ProcessSongEnter ==
    /\ pc = "loaded"
    /\ pc' = "pitch"
    /\ cursor' = 1
    /\ run' = [run EXCEPT !.log = Append(@, "PitchCorrect")]
    /\ UNCHANGED <<sample_rate, song, analysed, call, alias>>

\* one iteration of process_song's loop: _process_section on the next Section
ProcessSectionStep ==
    /\ pc = "pitch"
    /\ cursor <= Len(Positions(song))
    /\ LET t       == Positions(song)[cursor][1]
           s       == Positions(song)[cursor][2]
           section == song.trackList[t].sectionList[s]
       IN  \E outs \in [1..Len(section.wordList) -> PipelineOutcomes] :
              LET done   == ProcessWords(section.wordList, outs, Len(section.wordList))
                  raised == ProcessSectionError(section, outs, sample_rate) # "none"
              IN  /\ song' = [song EXCEPT !.trackList[t].sectionList[s] =
                                              ProcessSection(section, outs, sample_rate)]
                  /\ analysed' = analysed + done.calls
                  /\ pc' = IF raised THEN "failed" ELSE "pitch"
                  /\ cursor' = IF raised THEN cursor ELSE cursor + 1
                  /\ run' = IF raised THEN [run EXCEPT !.failed = "PitchCorrect"]
                             ELSE run
    /\ UNCHANGED <<sample_rate, call, alias>>

\* mutant: process_song returns before its loop has visited every Section
ProcessSongReturn_Early ==
    /\ pc = "pitch"
    /\ pc' = "corrected"
    /\ cursor' = 1
    /\ UNCHANGED <<sample_rate, song, analysed, call, run, alias>>

\* process_song returns the Song
ProcessSongReturn ==
    /\ pc = "pitch"
    /\ cursor > Len(Positions(song))
    /\ pc' = "corrected"
    /\ cursor' = 1
    /\ UNCHANGED <<sample_rate, song, analysed, call, run, alias>>

\* connect_song is entered with the Song process_song returned
ConnectSongEnter ==
    /\ pc = "corrected"
    /\ pc' = "connect"
    /\ cursor' = 1
    /\ run' = [run EXCEPT !.log = Append(@, "Connect")]
    /\ UNCHANGED <<sample_rate, song, analysed, call, alias>>

\* one iteration of connect_song's loop: _connect_track_sections on the next Track
ConnectTrackStep ==
    /\ pc = "connect"
    /\ cursor <= Len(song.trackList)
    /\ IF ConnectRaises(song.trackList[cursor], sample_rate)
       THEN /\ pc' = "failed"
            /\ run' = [run EXCEPT !.failed = "Connect"]
            /\ UNCHANGED <<song, cursor, alias>>
       ELSE /\ song' = [song EXCEPT !.trackList[cursor] =
                                        ConnectTrackSections(@, sample_rate)]
            /\ alias' = alias \cup SharedWith(cursor, song.trackList[cursor])
            /\ cursor' = cursor + 1
            /\ UNCHANGED <<pc, run>>
    /\ UNCHANGED <<sample_rate, analysed, call>>

\* connect_song returns the Song
ConnectSongReturn ==
    /\ pc = "connect"
    /\ cursor > Len(song.trackList)
    /\ pc' = "connected"
    /\ UNCHANGED <<sample_rate, song, cursor, analysed, call, run, alias>>

NextPipeline ==
    \/ LoadSong
    \/ ProcessSongEnter
    \/ ProcessSectionStep
    \/ ProcessSongReturn
    \/ ConnectSongEnter
    \/ ConnectTrackStep
    \/ ConnectSongReturn

SpecPipeline == Init /\ [][NextPipeline]_vars

\* a Section as _process_section leaves it when its one Word has buffer b
SectionWith(b) ==
    [wordList |-> <<Word(reference_pitch, QuarterAt(1), LyricLow, Some(b))>>,
     sectionSrc |-> Some(b)]

\* Sections handed to _connect_track_sections: with a buffer, or without any
SectionChoices ==
    {Section(<<>>)} \cup
    {SectionWith(b) : b \in BuffersOf(SecVals, MaxSecLen) \ {<<>>}}

\* number of Sections of a Track handed directly to _connect_track_sections
MaxSections == 3

\* sample rates of the connectors tried on a Track: a negative window, the rate
\* 0 at which the time of a Section cannot be computed, a window of 1 sample,
\* and the default rate, whose window is longer than every buffer
TrackRates == {-50, 0, 50, 22050}

\* a direct call of _connect_track_sections on a connector built with sample
\* rate sr: it raises ZeroDivisionError and leaves the Track as it was, or
\* returns
CallConnectTrack ==
    /\ pc = "start"
    /\ \E sr \in TrackRates, k \in 0..MaxSections :
          \E ss \in [1..k -> SectionChoices] :
              /\ sample_rate' = sr
              /\ IF ConnectRaises(Track(ss), sr)
                 THEN /\ song' = [trackList |-> <<Track(ss)>>]
                      /\ pc' = "failed"
                      /\ UNCHANGED alias
                 ELSE /\ song' = [trackList |->
                                     <<ConnectTrackSections(Track(ss), sr)>>]
                      /\ alias' = SharedWith(1, Track(ss))
                      /\ pc' = "returned"
    /\ UNCHANGED <<cursor, analysed, call, run>>

NextTrack == CallConnectTrack

SpecTrack == Init /\ [][NextTrack]_vars

\* longest buffer handed directly to _save_wav_file
MaxSaveLen == 2

\* what the file system does while _save_wav_file writes: nothing goes wrong,
\* the file cannot be opened, the write fails before the header is complete,
\* or the file takes the header and room frames and no more
Io(kind, room) == [kind |-> kind, room |-> room]

IOOutcomes ==
    {Io("ok", 0), Io("open_raises", 0), Io("write_raises", 0)}
      \cup {Io("full", room) : room \in 0..(MaxSaveLen - 1)}

\* _save_wav_file(audio_data, output_path) on a generator built with sample rate
\* sr, the file at output_path being before: wave.open creates or truncates the
\* file, setframerate rejects a rate <= 0 and the header is never written,
\* writeframes writes the header, which declares len(audio_data) frames, and
\* the frames; when the file takes no more than room < len(audio_data) frames
\* OSError is raised and the file stays behind with its header and room frames
SaveWavFile(audio_data, sr, io, before) ==
    IF io.kind = "open_raises"
    THEN [raised |-> TRUE, error |-> "OSError", file |-> before]
    ELSE IF sr <= 0
    THEN [raised |-> TRUE, error |-> "wave.Error",
          file |-> [state |-> "truncated", frames |-> 0]]
    ELSE IF io.kind = "write_raises"
    THEN [raised |-> TRUE, error |-> "OSError",
          file |-> [state |-> "truncated", frames |-> 0]]
    ELSE IF io.kind = "full" /\ io.room < Len(audio_data)
    THEN [raised |-> TRUE, error |-> "OSError",
          file |-> [state |-> "partial", frames |-> io.room]]
    ELSE [raised |-> FALSE, error |-> "none",
          file |-> [state |-> "written", frames |-> Len(audio_data)]]

\* generate_output(song): _merge_tracks, _process_audio, _save_wav_file; an
\* exception is re-raised, otherwise the output path is returned
GenerateOutput(s, sr, io, before) ==
    LET final_audio     == MergeTracks(s)
        processed_audio == ProcessAudio(final_audio)
        saved           == SaveWavFile(processed_audio.audio, sr, io, before)
    IN  [raised |-> saved.raised, error |-> saved.error, file |-> saved.file,
         final_audio |-> final_audio, processed_audio |-> processed_audio,
         returned |-> IF saved.raised THEN "none" ELSE "output_path"]

\* all buffers of at most n samples with values in the set of rationals vals
BuffersIn(vals, n) == UNION {[1..k -> vals] : k \in 0..n}

\* samples of the Track buffers mixed
MergeVals == {R(1), R(-1), Rat(1, 2)}

TrackWith(w) == [sectionList |-> <<>>, trackWaveData |-> w]

TrackChoices(vals) ==
    {TrackWith(None)} \cup {TrackWith(Some(b)) : b \in BuffersIn(vals, MaxTrackLen)}

\* a direct call of _merge_tracks
CallMergeTracks ==
    /\ pc = "start"
    /\ \E k \in 0..MaxTracks :
          \E ts \in [1..k -> TrackChoices(MergeVals)] :
              /\ song' = [trackList |-> ts]
              /\ call' = [op |-> "merge", result |-> MergeTracks([trackList |-> ts])]
    /\ pc' = "returned"
    /\ UNCHANGED <<sample_rate, cursor, analysed, run, alias>>

\* longest run of loud samples of a mixed buffer
MaxMixLen == 2
\* a long silence in front of them
LongSilence == 120

\* samples of the mixed buffers mastered: silent, below the threshold, above it
MasterVals == {Zero, Rat(1, 4), Rat(-1, 2), Rat(9, 10), Rat(39, 20), Rat(-59, 20)}

MixBuffers ==
    {Zeros(z) \o b : z \in {0, 1, LongSilence}, b \in BuffersIn(MasterVals, MaxMixLen)}

\* samples whose squares are 0 in float32 (2^-80, -2^-76, 2^-75) or 2^-148
\* (2^-74), silence and a rational sample
QuietVals ==
    {Zero, Rat(1, 4), TinySample(1, 80), TinySample(-1, 76), TinySample(1, 75),
     TinySample(1, 74)}

\* buffers normalized: the mixed buffers, and quiet ones after 0, 1 or 3 zeros
NormalizeBuffers ==
    MixBuffers \cup
      {Zeros(z) \o b : z \in {0, 1, 3}, b \in BuffersIn(QuietVals, MaxMixLen)}

\* a direct call of _prevent_clipping
CallPreventClipping ==
    /\ pc = "start"
    /\ \E audio \in MixBuffers :
          call' = [op |-> "limit", audio |-> audio, result |-> PreventClipping(audio)]
    /\ pc' = "returned"
    /\ UNCHANGED <<sample_rate, song, cursor, analysed, run, alias>>

\* a direct call of _normalize_audio
CallNormalizeAudio ==
    /\ pc = "start"
    /\ \E audio \in NormalizeBuffers :
          call' = [op |-> "normalize", audio |-> audio, result |-> NormalizeAudio(audio)]
    /\ pc' = "returned"
    /\ UNCHANGED <<sample_rate, song, cursor, analysed, run, alias>>

\* a direct call of _process_audio
CallProcessAudio ==
    /\ pc = "start"
    /\ \E audio \in MixBuffers :
          call' = [op |-> "process", audio |-> audio, result |-> ProcessAudio(audio)]
    /\ pc' = "returned"
    /\ UNCHANGED <<sample_rate, song, cursor, analysed, run, alias>>


\* samples quantized: in range, at full scale, out of range, near a step, and
\* float32 values whose product with 32767 rounds up to a whole number
QuantVals ==
    {Zero, Rat(1, 4), Rat(-1, 4), Rat(9, 10), Rat(-19, 20), R(1), R(-1), R(2), R(-3),
     Rat(1, 32767), Rat(-3, 65534), Rat(21, 20), Rat(32769, 65536),
     Rat(-32769, 65536)}

\* sample rates an output generator is built with
OutputRates == {0, 22050}

\* a direct call of _save_wav_file
CallSaveWavFile ==
    /\ pc = "start"
    /\ \E audio \in BuffersIn(QuantVals, MaxSaveLen), sr \in OutputRates,
          io \in IOOutcomes, before \in {NoFile, OldFile} :
          /\ sample_rate' = sr
          /\ call' = [op |-> "save", audio |-> audio, before |-> before,
                      audio_int16 |-> Quantize(audio),
                      result |-> SaveWavFile(audio, sr, io, before)]
    /\ pc' = "returned"
    /\ UNCHANGED <<song, cursor, analysed, run, alias>>

\* a direct call of generate_output
CallGenerateOutput ==
    /\ pc = "start"
    /\ \E k \in 0..MaxTracks, sr \in OutputRates, io \in IOOutcomes,
          before \in {NoFile, OldFile} :
          \E ts \in [1..k -> TrackChoices({R(1)})] :
              /\ sample_rate' = sr
              /\ song' = [trackList |-> ts]
              /\ call' = [op |-> "generate_output", before |-> before,
                          result |-> GenerateOutput([trackList |-> ts], sr, io, before)]
    /\ pc' = "returned"
    /\ UNCHANGED <<cursor, analysed, run, alias>>

NextOutput ==
    \/ CallMergeTracks
    \/ CallPreventClipping
    \/ CallNormalizeAudio
    \/ CallProcessAudio
    \/ CallSaveWavFile
    \/ CallGenerateOutput

SpecOutput == Init /\ [][NextOutput]_vars

(***************************************************************************)
(* FlorenceEngine                                                          *)
(***************************************************************************)
\* sample rates an engine is built with; the constructor checks nothing.
\* 22050 Hz is the default, 44100 Hz the rate of the speech stage
EngineRates == {0, 100, 22050, 44100}

\* a Note with a lyric, offset and duration in whole quarter lengths
EngineNote(offset, quarterLength, frequency) ==
    Note("Note", R(offset), R(quarterLength), frequency, LyricLa)

\* notes of the scores handed to the engine: two consecutive quarters, a half
\* note that runs into the second quarter, and a note below 130 Hz
EngineNotes ==
    {EngineNote(0, 1, 220), EngineNote(1, 1, 220), EngineNote(0, 2, 220),
     EngineNote(0, 1, 110)}

\* part.flatten().notes yields the notes of a part by offset
ByOffset(notes) ==
    \A i \in 1..(Len(notes) - 1) : RLeq(notes[i].offset, notes[i + 1].offset)

\* shapes of the scores tried: the number of notes of each part
ScoreShapes == { <<>>, <<0>>, <<1>>, <<2>>, <<1, 1>> }

PartsOf(n, notes) == {part \in [1..n -> notes] : ByOffset(part)}

EngineScores ==
    UNION {{score \in [1..Len(shape) -> UNION {PartsOf(n, EngineNotes) : n \in 0..2}] :
               \A t \in 1..Len(shape) : Len(score[t]) = shape[t]}
              : shape \in ScoreShapes}

\* raw buffers the speech engine returns for a Word, possibly empty
EngineWaves == {Some(b) : b \in BuffersOf(WordVals, MaxWordLen)}

\* OUTPUT_SAMPLE_RATE of FlorenceSpeakGenerateor and of the Windows engine: the
\* rate of every buffer the speech stage stores in Word.oriWave
OUTPUT_SAMPLE_RATE == 44100

RECURSIVE SectionWords(_, _)
\* number of Words in sectionList[1..k]
SectionWords(sectionList, k) ==
    IF k = 0 THEN 0 ELSE SectionWords(sectionList, k - 1) + Len(sectionList[k].wordList)

RECURSIVE TrackWords(_, _)
\* number of Words in Tracks 1..t of a Song
TrackWords(s, t) ==
    IF t = 0 THEN 0
    ELSE TrackWords(s, t - 1)
           + SectionWords(s.trackList[t].sectionList, Len(s.trackList[t].sectionList))

\* the assignments of generate_song_speech(song): a Word without a buffer gets
\* the buffer the engine returned for it, waves[i] for the i-th Word of the
\* Song, None where the engine has not been run for the Word
GenerateSongSpeech(s, waves) ==
    [trackList |->
        [t \in 1..Len(s.trackList) |->
            [s.trackList[t] EXCEPT !.sectionList =
                [k \in 1..Len(@) |->
                    [@[k] EXCEPT !.wordList =
                        [w \in 1..Len(@) |->
                            IF @[w].oriWave.has THEN @[w]
                            ELSE [@[w] EXCEPT !.oriWave =
                                     waves[TrackWords(s, t - 1)
                                             + SectionWords(s.trackList[t].sectionList, k - 1)
                                             + w]]]]]]]]

\* constructors of FlorenceSpeakGenerateor that fit on the interpreter's
\* stack together with the TTSFactory() each of them builds: in the next one,
\* TTSFactory() runs out of frames and raises RecursionError
RecursionLimit == 3

\* Words synthesized after the engine is resolved
MaxSpoken == 2

\* engine_type arguments tried: "" selects automatically, "sapi5" is no engine
EngineTypes == {"", "espeak", "windows", "sapi5"}

\* detect_available_engines: 'windows' when platform.system() is Windows and
\* WindowsFlorenceSpeakGenerateor() can be built, 'espeak' when espeak-ng is
\* on the PATH; sorted by priority, windows (2) before espeak (1)
DetectAvailableEngines(env) ==
    (IF env.windows /\ env.sapi THEN <<"windows">> ELSE <<>>)
      \o (IF env.espeak THEN <<"espeak">> ELSE <<>>)

Available(engines, name) == \E i \in 1..Len(engines) : engines[i] = name

\* auto_select_engine(): the name returned, "" for its Exception
AutoSelectEngine(engines) ==
    IF Available(engines, "windows") THEN "windows"
    ELSE IF Available(engines, "espeak") THEN "espeak"
    ELSE ""

\* the environments an engine is constructed in
Environments ==
    {[windows |-> w, sapi |-> p, espeak |-> e] : w \in BOOLEAN, p \in BOOLEAN, e \in BOOLEAN}

RECURSIVE SpeakGenerateorInit(_, _, _)
\* FlorenceSpeakGenerateor(engine_type) in environment env, the depth-th
\* constructor on the stack: the engine it ends holding, or its exception.
\* The RecursionError comes out of self.tts_factory = TSFactory(), whose
\* detect_available_engines calls deepest (shutil.which), outside any handler
SpeakGenerateorInit(env, engine_type, depth) ==
    LET available == DetectAvailableEngines(env)
        name      == IF engine_type # "" THEN engine_type
                     ELSE AutoSelectEngine(available)
    IN  IF depth > RecursionLimit
        THEN [engine |-> "none", error |-> "RecursionError"]
        ELSE IF name = "" THEN [engine |-> "none", error |-> "no engine available"]
        ELSE IF ~Available(available, name)
        THEN [engine |-> "none", error |-> "engine not available"]
        ELSE IF name = "windows" THEN [engine |-> "windows", error |-> "none"]
        ELSE SpeakGenerateorInit(env, "", depth + 1)

\* FlorenceEngine(sample_rate=sr) is constructed in some environment: the
\* constructor of the speech generator raises and there is no engine, or the
\* engine is built and process_score or select_and_process is called on it
EngineCall ==
    /\ pc = "start"
    /\ \E sr \in EngineRates, env \in Environments :
          LET speech == SpeakGenerateorInit(env, "", 1)
          IN  /\ sample_rate' = sr
              /\ IF speech.error # "none"
                 THEN /\ pc' = "no_engine"
                      /\ run' = [NoRun EXCEPT !.failed = speech.error]
                 ELSE \E entry \in {"process_score", "select_and_process"},
                         before \in {NoFile, OldFile} :
                         /\ run' = [NoRun EXCEPT !.entry = entry, !.file = before]
                         /\ pc' = IF entry = "select_and_process" THEN "select"
                                  ELSE "entry"
    /\ UNCHANGED <<song, cursor, analysed, call, alias>>

\* select_and_process: selectScoreFile returns a path, returns None (the user
\* cancelled) or raises; without a path None is returned
SelectScoreFile ==
    /\ pc = "select"
    /\ \E chosen \in {"path", "cancel", "raise"} :
          IF chosen = "path"
          THEN pc' = "entry" /\ UNCHANGED run
          ELSE pc' = "done" /\ run' = [run EXCEPT !.result = "None"]
    /\ UNCHANGED <<sample_rate, song, cursor, analysed, call, alias>>

\* process_score: os.path.exists(score_path), FileNotFoundError if not
CheckScoreFile ==
    /\ pc = "entry"
    /\ \E exists \in BOOLEAN :
          IF exists
          THEN pc' = "decode" /\ UNCHANGED run
          ELSE pc' = "failed" /\ run' = [run EXCEPT !.failed = "FileNotFoundError"]
    /\ UNCHANGED <<sample_rate, song, cursor, analysed, call, alias>>

\* step 1, _decode_score: converter.parse raises, or gives a score that
\* decode_score turns into the Song or rejects
DecodeScore ==
    /\ pc = "decode"
    /\ \/ /\ pc' = "failed"
          /\ run' = [run EXCEPT !.log = Append(@, "Decode"), !.failed = "Decode"]
          /\ UNCHANGED song
       \/ \E score \in EngineScores :
             LET decoded == DecodeParts(score, Len(score))
             IN  IF decoded.raised
                 THEN /\ pc' = "failed"
                      /\ run' = [run EXCEPT !.log = Append(@, "Decode"),
                                            !.failed = "Decode", !.score = score]
                      /\ UNCHANGED song
                 ELSE /\ song' = decoded.song
                      /\ pc' = "speech"
                      /\ run' = [run EXCEPT !.log = Append(@, "Decode"),
                                            !.score = score]
    /\ UNCHANGED <<sample_rate, cursor, analysed, call, alias>>

\* step 2, _generate_speech: generate_song_speech is entered; the buffers it
\* stores are at OUTPUT_SAMPLE_RATE
GenerateSpeechEnter ==
    /\ pc = "speech"
    /\ pc' = "speaking"
    /\ cursor' = 1
    /\ run' = [run EXCEPT !.log = Append(@, "Synthesize"),
                          !.speech_rate = OUTPUT_SAMPLE_RATE]
    /\ UNCHANGED <<sample_rate, song, analysed, call, alias>>

\* one Word of generate_song_speech, the Words taken in the order of the
\* Tracks and Sections: _generate_single_word_speech runs the engine (the
\* event loop of pyttsx3 runs until the Word is spoken) and raises, or gives
\* the buffer that is stored in word.oriWave; the Words before it keep theirs
GenerateSpeechStep ==
    /\ pc = "speaking"
    /\ cursor <= TrackWords(song, Len(song.trackList))
    /\ \/ /\ pc' = "failed"
          /\ run' = [run EXCEPT !.failed = "Synthesize"]
          /\ UNCHANGED <<song, cursor>>
       \/ /\ \E wave \in EngineWaves :
                song' = GenerateSongSpeech(song,
                            [i \in 1..TrackWords(song, Len(song.trackList)) |->
                                IF i = cursor THEN wave ELSE None])
          /\ cursor' = cursor + 1
          /\ UNCHANGED <<pc, run>>
    /\ UNCHANGED <<sample_rate, analysed, call, alias>>

\* generate_song_speech returns the Song
GenerateSpeechReturn ==
    /\ pc = "speaking"
    /\ cursor > TrackWords(song, Len(song.trackList))
    /\ pc' = "loaded"
    /\ cursor' = 1
    /\ UNCHANGED <<sample_rate, song, analysed, call, run, alias>>

\* step 5, _generate_output: generate_output on the connected Song
GenerateOutputStep ==
    /\ pc = "connected"
    /\ run.entry # "none"
    /\ \E io \in IOOutcomes :
          LET out == GenerateOutput(song, sample_rate, io, run.file)
          IN  /\ pc' = IF out.raised THEN "failed" ELSE "mastered"
              /\ run' = [run EXCEPT !.log = Append(@, "Master"),
                                    !.failed = IF out.raised THEN "Master" ELSE @,
                                    !.file = out.file]
    /\ UNCHANGED <<sample_rate, song, cursor, analysed, call, alias>>

\* process_score returns output_path; select_and_process returns it in turn
ProcessScoreReturn ==
    /\ pc = "mastered"
    /\ pc' = "done"
    /\ run' = [run EXCEPT !.result = "output_path"]
    /\ UNCHANGED <<sample_rate, song, cursor, analysed, call, alias>>

\* the exception of the failed step leaves process_score; select_and_process
\* catches it and returns None
ProcessScoreRaise ==
    /\ pc = "failed"
    /\ run.entry # "none"
    /\ pc' = "done"
    /\ run' = [run EXCEPT !.result = IF run.entry = "select_and_process"
                                     THEN "None" ELSE "raised"]
    /\ UNCHANGED <<sample_rate, song, cursor, analysed, call, alias>>

NextEngine ==
    \/ EngineCall
    \/ SelectScoreFile
    \/ CheckScoreFile
    \/ DecodeScore
    \/ GenerateSpeechEnter
    \/ GenerateSpeechStep
    \/ GenerateSpeechReturn
    \/ ProcessSongEnter
    \/ ProcessSectionStep
    \/ ProcessSongReturn
    \/ ConnectSongEnter
    \/ ConnectTrackStep
    \/ ConnectSongReturn
    \/ GenerateOutputStep
    \/ ProcessScoreReturn
    \/ ProcessScoreRaise

SpecEngine == Init /\ [][NextEngine]_vars

\* most notes of a part handed directly to _process_part
MaxNotes == 2

\* offsets and durations in quarter lengths: on and off the millisecond grid
\* (a triplet third), a grace note of duration 0, a 1/1024 note, and 201/100,
\* whose double lies below it: 2.01 * 500 = 1004.9999999999999
NoteOffsets == {Zero, Rat(1, 3), R(1), Rat(201, 100)}

NoteLengths == {Zero, Rat(1, 1024), Rat(1, 3), R(1), R(2), Rat(201, 100)}

\* lyrics of the notes tried: ASCII with capitals, a Han character, and a Han
\* character with a cased letter and a digit outside ASCII
DecoderLyrics == {LyricLa, LyricLA, LyricHan, LyricMixed}

\* notes of the parts tried: sung notes, a note below 130 Hz, a note without
\* a lyric and a chord
DecoderNotes ==
    {Note("Note", o, q, 220, LyricLa) : o \in NoteOffsets, q \in NoteLengths}
      \cup {Note("Note", Zero, R(1), 220, l) : l \in DecoderLyrics}
      \cup {Note("Note", Zero, R(1), 110, LyricLa), Note("Note", R(1), R(1), 220, <<>>),
            Note("Chord", Zero, R(1), 220, LyricLa)}

\* a direct call of _process_part on the notes of one part
CallProcessPart ==
    /\ pc = "start"
    /\ \E n \in 0..MaxNotes :
          \E part \in PartsOf(n, DecoderNotes) :
              call' = [op |-> "process_part", part |-> part, result |-> ProcessPart(part)]
    /\ pc' = "returned"
    /\ UNCHANGED <<sample_rate, song, cursor, analysed, run, alias>>

NextDecoder == CallProcessPart

SpecDecoder == Init /\ [][NextDecoder]_vars

(***************************************************************************)
(* FlorenceSpeakGenerateor and TTSFactory: the speech engine is resolved   *)
(***************************************************************************)
\* FlorenceSpeakGenerateor(engine_type) is called in some environment
SpeakInit ==
    /\ pc = "start"
    /\ \E windows \in BOOLEAN, sapi \in BOOLEAN, espeak \in BOOLEAN,
          engine_type \in EngineTypes :
          call' = [op |-> "speak_init",
                   env |-> [windows |-> windows, sapi |-> sapi, espeak |-> espeak],
                   engine_type |-> engine_type, requested |-> engine_type,
                   constructions |-> 1, detections |-> 0, available |-> <<>>,
                   chosen |-> "", engine |-> "none", error |-> "none", spoken |-> 0]
    /\ pc' = "tts_factory"
    /\ UNCHANGED <<sample_rate, song, cursor, analysed, run, alias>>

\* engine_name = None: create_engine picks the best available engine
NoName == "None"

\* engine_name arguments of a direct create_engine call
EngineNames == {NoName, "espeak", "windows", "sapi5"}

\* TTSFactory() is built directly in some environment (no FlorenceSpeakGenerateor
\* is on the stack) and create_engine(engine_name) is called on it
FactoryInit ==
    /\ pc = "start"
    /\ \E env \in Environments, engine_name \in EngineNames :
          call' = [op |-> "create_engine", env |-> env,
                   engine_type |-> engine_name, requested |-> engine_name,
                   constructions |-> 0, detections |-> 0, available |-> <<>>,
                   chosen |-> "", engine |-> "none", error |-> "none", spoken |-> 0]
    /\ pc' = "tts_factory"
    /\ UNCHANGED <<sample_rate, song, cursor, analysed, run, alias>>

\* TTSFactory(): __init__ detects the engines, or, in a constructor beyond the
\* stack, raises RecursionError.  A factory built directly is then asked for
\* an engine, one built by a constructor goes on with the selection
CreateFactory ==
    /\ pc = "tts_factory"
    /\ IF call.constructions > RecursionLimit
       THEN /\ call' = [call EXCEPT !.error = "RecursionError"]
            /\ pc' = "tts_failed"
       ELSE IF call.constructions = 0
       THEN /\ call' = [call EXCEPT !.available = DetectAvailableEngines(call.env),
                                    !.detections = @ + 1,
                                    !.chosen = call.requested]
            /\ pc' = "tts_create"
       ELSE /\ call' = [call EXCEPT !.available = DetectAvailableEngines(call.env),
                                    !.detections = @ + 1]
            /\ pc' = "tts_select"
    /\ UNCHANGED <<sample_rate, song, cursor, analysed, run, alias>>

\* the engine name: engine_type when given, else auto_select_engine(), which
\* raises when no engine is available
SelectEngine ==
    /\ pc = "tts_select"
    /\ LET name == IF call.requested # "" THEN call.requested
                   ELSE AutoSelectEngine(call.available)
       IN  IF name = ""
           THEN /\ call' = [call EXCEPT !.error = "no engine available"]
                /\ pc' = "tts_failed"
           ELSE /\ call' = [call EXCEPT !.chosen = name]
                /\ pc' = "tts_create"
    /\ UNCHANGED <<sample_rate, song, cursor, analysed, run, alias>>

\* create_engine(engine_name): None stands for the first available engine and
\* raises when there is none; an Exception for a name that is not available;
\* for 'windows' a WindowsFlorenceSpeakGenerateor; for 'espeak' the class that
\* import_espeak_engine returns, FlorenceSpeakGenerateor itself, is called
\* with no argument: its constructor starts, one more on the stack
CreateEngine ==
    /\ pc = "tts_create"
    /\ LET engine_name == IF call.chosen # NoName THEN call.chosen
                          ELSE IF call.available = <<>> THEN NoName
                          ELSE call.available[1]
       IN  IF engine_name = NoName
           THEN /\ call' = [call EXCEPT !.error = "no engine available"]
                /\ pc' = "tts_failed"
           ELSE IF ~Available(call.available, engine_name)
           THEN /\ call' = [call EXCEPT !.error = "engine not available"]
                /\ pc' = "tts_failed"
           ELSE IF engine_name = "windows"
           THEN /\ call' = [call EXCEPT !.engine = "windows", !.chosen = engine_name]
                /\ pc' = "tts_ready"
           ELSE /\ call' = [call EXCEPT !.constructions = @ + 1, !.requested = "",
                                        !.chosen = ""]
                /\ pc' = "tts_factory"
    /\ UNCHANGED <<sample_rate, song, cursor, analysed, run, alias>>

\* _generate_single_word_speech(word.lrc) on the engine that is held
GenerateSingleWordSpeech ==
    /\ pc = "tts_ready"
    /\ call.spoken < MaxSpoken
    /\ call' = [call EXCEPT !.spoken = @ + 1]
    /\ UNCHANGED <<pc, sample_rate, song, cursor, analysed, run, alias>>

NextSpeech ==
    \/ SpeakInit
    \/ FactoryInit
    \/ CreateFactory
    \/ SelectEngine
    \/ CreateEngine
    \/ GenerateSingleWordSpeech

SpecSpeech == Init /\ [][NextSpeech]_vars

(***************************************************************************)
(* The stages run out of order: the Words of a Song are pitch-corrected    *)
(* one at a time in any order, each result kept in the Word's own slot, a  *)
(* Section is joined once its Words are corrected, and the Tracks are      *)
(* connected in any order; the list order of process_song is one of them   *)
(***************************************************************************)
\* shapes of the Songs corrected out of order
AnyOrderShapes == { << <<2>> >>, << <<1, 1>> >>, << <<1>>, <<2>> >> }

AnyOrderSongs ==
    UNION {{SongOf(shape, ws) :
              ws \in [1..WordsBefore(shape, Len(shape)) ->
                         {Word(220, QuarterAt(1), LyricLow, w) : w \in WordWaves}]}
              : shape \in AnyOrderShapes}

\* what the vocoder does on a Word: it is a function of the Word alone
AnyOrderOutcomes ==
    {AnalysisFails, Analysed(<<0>>), Synthesized(<<100>>, <<R(-1)>>),
     Synthesized(<<100>>, <<R(-1), R(-1), R(-1)>>)}

\* the i-th Word of a Song, counted through its Tracks and Sections
WordAt(s, i) ==
    LET t  == CHOOSE x \in 1..Len(s.trackList) :
                  TrackWords(s, x - 1) < i /\ i <= TrackWords(s, x)
        sl == s.trackList[t].sectionList
        k  == CHOOSE x \in 1..Len(sl) :
                  /\ TrackWords(s, t - 1) + SectionWords(sl, x - 1) < i
                  /\ i <= TrackWords(s, t - 1) + SectionWords(sl, x)
    IN  sl[k].wordList[i - TrackWords(s, t - 1) - SectionWords(sl, k - 1)]

InSeq(q, x) == \E j \in 1..Len(q) : q[j] = x

\* mutant: the segments of a Section are taken in the order they were finished
JoinOrder_Completion(first, count, order) ==
    SelectSeq(order, LAMBDA i : first < i /\ i <= first + count)

\* the corrected Words first+1 .. first+count of a Section, in list order (the
\* order in which _process_section appends to processed_segments)
JoinOrder(first, count, order) ==
    SelectSeq([j \in 1..count |-> first + j], LAMBDA i : InSeq(order, i))

\* Section k of Track t has been joined: _process_section has returned for it
Joined(done, t, k) == <<t, k>> \in done

\* a Song and what the vocoder does on each of its Words
AnyOrderLoad ==
    /\ pc = "start"
    /\ \E sr \in {50, 100}, s \in AnyOrderSongs :
          \E outs \in [1..TrackWords(s, Len(s.trackList)) -> AnyOrderOutcomes] :
              /\ sample_rate' = sr
              /\ song' = s
              /\ call' = [op |-> "any_order", outs |-> outs,
                          slots |-> [i \in 1..TrackWords(s, Len(s.trackList)) |-> <<>>],
                          order |-> <<>>, joined |-> {}, track_order |-> <<>>]
    /\ pc' = "workers"
    /\ UNCHANGED <<cursor, analysed, run, alias>>

\* _adjust_fundamental_frequency(word.oriWave, word.pitch) on any Word with
\* audio that has not been corrected yet; an exception ends the stage
CorrectAnyWord ==
    /\ pc = "workers"
    /\ \E i \in 1..Len(call.slots) :
          /\ ~InSeq(call.order, i)
          /\ HasAudio(WordAt(song, i))
          /\ LET word == WordAt(song, i)
                 r    == AdjustFundamentalFrequency(word.oriWave.buf, word.pitch,
                                                    call.outs[i])
             IN  IF r.raised
                 THEN pc' = "failed" /\ UNCHANGED call
                 ELSE /\ call' = [call EXCEPT !.slots[i] = r.value,
                                              !.order = Append(@, i)]
                      /\ UNCHANGED pc
          /\ analysed' = analysed + 1
    /\ UNCHANGED <<sample_rate, song, cursor, run, alias>>

\* the end of _process_section for any Section whose Words with audio are all
\* corrected: its segments are joined with _connect_segments and stored in
\* sectionSrc, if there is any; the ValueError of the join ends the stage
JoinSection ==
    /\ pc = "workers"
    /\ \E t \in 1..Len(song.trackList) :
          \E k \in 1..Len(song.trackList[t].sectionList) :
              LET sl       == song.trackList[t].sectionList
                  first    == TrackWords(song, t - 1) + SectionWords(sl, k - 1)
                  taken    == JoinOrder(first, Len(sl[k].wordList), call.order)
                  segments == [j \in 1..Len(taken) |-> call.slots[taken[j]]]
              IN  /\ ~Joined(call.joined, t, k)
                  /\ \A w \in 1..Len(sl[k].wordList) :
                        HasAudio(sl[k].wordList[w]) => InSeq(call.order, first + w)
                  /\ IF ConnectSegments(segments, sample_rate).raised
                     THEN pc' = "failed" /\ UNCHANGED <<song, call>>
                     ELSE /\ song' = IF Len(segments) = 0 THEN song
                                      ELSE [song EXCEPT
                                              !.trackList[t].sectionList[k].sectionSrc =
                                                 Some(ConnectSegments(segments,
                                                                      sample_rate).value)]
                          /\ call' = [call EXCEPT !.joined = @ \cup {<<t, k>>}]
                          /\ UNCHANGED pc
    /\ UNCHANGED <<sample_rate, cursor, analysed, run, alias>>

\* every Section is joined: process_song returns the Song
AnyOrderCorrected ==
    /\ pc = "workers"
    /\ \A t \in 1..Len(song.trackList) :
          \A k \in 1..Len(song.trackList[t].sectionList) : Joined(call.joined, t, k)
    /\ pc' = "joined"
    /\ UNCHANGED <<sample_rate, song, cursor, analysed, call, run, alias>>

\* _connect_track_sections on any Track that has not been connected yet
ConnectAnyTrack ==
    /\ pc = "joined"
    /\ \E t \in 1..Len(song.trackList) :
          /\ ~InSeq(call.track_order, t)
          /\ song' = [song EXCEPT !.trackList[t] = ConnectTrackSections(@, sample_rate)]
          /\ alias' = alias \cup SharedWith(t, song.trackList[t])
          /\ call' = [call EXCEPT !.track_order = Append(@, t)]
    /\ UNCHANGED <<pc, sample_rate, cursor, analysed, run>>

\* every Track is connected
AnyOrderReturn ==
    /\ pc = "joined"
    /\ Len(call.track_order) = Len(song.trackList)
    /\ pc' = "any_done"
    /\ UNCHANGED <<sample_rate, song, cursor, analysed, call, run, alias>>

NextAnyOrder ==
    \/ AnyOrderLoad
    \/ CorrectAnyWord
    \/ JoinSection
    \/ AnyOrderCorrected
    \/ ConnectAnyTrack
    \/ AnyOrderReturn

SpecAnyOrder == Init /\ [][NextAnyOrder]_vars

Next ==
    \/ NextCrossfade
    \/ NextCoder
    \/ NextTrack
    \/ NextPipeline
    \/ NextOutput
    \/ NextEngine
    \/ NextDecoder
    \/ NextSpeech
    \/ NextAnyOrder

Spec == Init /\ [][Next]_vars

(***************************************************************************)
(* Properties                                                              *)
(***************************************************************************)
IsAdjust == call.op = "adjust"

IsCrossfade == call.op = "crossfade"

\* C1: every buffer _adjust_fundamental_frequency returns has exactly as many
\* samples as its input, whichever path produced it: the vocoder path (truncated
\* or zero-padded), the no-voiced-frame silence path, or the fallback path.
\* (Whether a buffer is returned at all is C2.)
C1_LengthInvariant ==
    (IsAdjust /\ ~call.out.raised) => Len(call.out.value) = Len(call.audio)

\* the vocoder path with a synthesized buffer shorter than the input
C1_Witness ==
    /\ IsAdjust
    /\ call.path = "vocoder"
    /\ Len(call.voc.synth) < Len(call.audio)
    /\ ~call.out.raised

\* C2: _adjust_fundamental_frequency returns a buffer for every buffer and every
\* target pitch: no exception leaves it, the fallback path never fails.
C2_NeverRaises == IsAdjust => ~call.out.raised

\* C3: pitch-correcting an all-zero buffer of N samples gives N zero samples,
\* when no voiced frame is found and when the fallback path runs.
C3_SilenceSafety ==
    (IsAdjust /\ AllZero(call.audio) /\ call.path \in {"silence", "fallback"})
        => (~call.out.raised /\ call.out.value = Zeros(Len(call.audio)))

\* a zero buffer of two or more samples on the fallback path, non-positive pitch
C3_Witness ==
    /\ IsAdjust
    /\ AllZero(call.audio)
    /\ Len(call.audio) >= 2
    /\ call.path = "fallback"
    /\ call.target_f0 <= 0
    /\ ~call.out.raised

HasNonPositivePitch(s) ==
    \E t \in 1..Len(s.trackList) :
        \E k \in 1..Len(s.trackList[t].sectionList) :
            \E w \in 1..Len(s.trackList[t].sectionList[k].wordList) :
                s.trackList[t].sectionList[k].wordList[w].pitch <= 0

AnySectionBuffer(s) ==
    \E t \in 1..Len(s.trackList) :
        \E k \in 1..Len(s.trackList[t].sectionList) :
            s.trackList[t].sectionList[k].sectionSrc.has

\* C4: a Song with a Word of target pitch <= 0 is rejected at the entry of
\* pitch correction, before any Word's buffer is analysed or resynthesised:
\* process_song derives no Section buffer from such a Song and never returns it.
C4_RejectedAtEntry ==
    HasNonPositivePitch(song) =>
        (~AnySectionBuffer(song) /\ pc \notin {"corrected", "connect", "connected"})

\* C5 as stated: _crossfade_connect overlaps min(floor(overlapSeconds *
\* sampleRate), len(a), len(b)) samples, its result has len(a) + len(b) -
\* overlapSamples samples, and with overlapSamples <= 0 the result is a followed
\* by b.
C5_OverlapAndLength ==
    IsCrossfade =>
        LET n == Min((window_size_ms * sample_rate) \div 1000,
                     Min(Len(call.a), Len(call.b)))
        IN  /\ Len(call.result) = Len(call.a) + Len(call.b) - n
            /\ n <= 0 => call.result = call.a \o call.b

\* overlapSeconds * sampleRate with its fraction dropped toward zero
WindowTruncated ==
    IF sample_rate >= 0 THEN (window_size_ms * sample_rate) \div 1000
    ELSE -((window_size_ms * (-sample_rate)) \div 1000)

\* C5 amended: _crossfade_connect overlaps n = min(int(overlapSeconds *
\* sampleRate), len(a), len(b)) samples, the product truncated toward zero; with
\* n > 0 its result has len(a) + len(b) - n samples, and with n <= 0 (a zero or
\* negative window, or an empty buffer) the result is a followed by b, of
\* len(a) + len(b) samples.
C5_OverlapTruncated ==
    IsCrossfade =>
        LET n == Min(WindowTruncated, Min(Len(call.a), Len(call.b)))
        IN  /\ n > 0 => Len(call.result) = Len(call.a) + Len(call.b) - n
            /\ n <= 0 => call.result = call.a \o call.b

\* a negative window: at -50 Hz two non-empty buffers are joined end to end
C5_Witness ==
    /\ IsCrossfade
    /\ sample_rate = -50
    /\ WindowTruncated = -1
    /\ Len(call.a) = 2
    /\ Len(call.b) = 2
    /\ call.result = call.a \o call.b

\* C6: with n > 0 overlap samples the result is the first len(a) - n samples of
\* a, then n samples a[len(a)-n+i] * fadeOut(i) + b[i] * fadeIn(i) with fadeOut
\* linear from 1 to 0 and fadeIn linear from 0 to 1 (a single overlap sample
\* takes the start values 1 and 0), then the last len(b) - n samples of b.
C6_CrossfadeShape ==
    IsCrossfade =>
        LET a  == call.a
            b  == call.b
            la == Len(a)
            lb == Len(b)
            n  == OverlapSamples(a, b, window_size_ms, sample_rate)
            wOut(i) == IF n = 1 THEN R(1) ELSE RAdd(R(1), Rat(-i, n - 1))
            wIn(i)  == IF n = 1 THEN R(0) ELSE Rat(i, n - 1)
        IN  n > 0 =>
              /\ \A k \in 1..(la - n) : call.result[k] = a[k]
              /\ \A j \in 1..(lb - n) : call.result[la + j] = b[n + j]
              /\ \A i \in 0..(n - 1) :
                    call.result[la - n + i + 1] =
                        RAdd(RMul(a[la - n + i + 1], wOut(i)), RMul(b[i + 1], wIn(i)))

\* two or more overlap samples, a head of a and a tail of b left, non-zero ends
C6_Witness ==
    /\ IsCrossfade
    /\ OverlapSamples(call.a, call.b, window_size_ms, sample_rate) >= 2
    /\ Len(call.a) > OverlapSamples(call.a, call.b, window_size_ms, sample_rate)
    /\ Len(call.b) > OverlapSamples(call.a, call.b, window_size_ms, sample_rate)
    /\ call.a[Len(call.a)] # Zero
    /\ call.b[1] # Zero
    /\ call.a[Len(call.a)] # call.b[1]

ConstantAt(buf, v) == \A i \in 1..Len(buf) : buf[i] = v

\* C7: for constant a and b of the same non-zero amplitude v every overlap
\* sample of _crossfade_connect(a, b), the midpoint included, equals v: the
\* fade weights sum to 1 at every overlap position, for every n >= 1.
C7_UnityGain ==
    (/\ IsCrossfade
     /\ Len(call.a) > 0
     /\ Len(call.b) > 0
     /\ call.a[1] # Zero
     /\ ConstantAt(call.a, call.a[1])
     /\ ConstantAt(call.b, call.a[1]))
        => LET n  == OverlapSamples(call.a, call.b, window_size_ms, sample_rate)
               la == Len(call.a)
           IN  \A i \in 0..(n - 1) : call.result[la - n + i + 1] = call.a[1]

\* three overlap samples: the middle one is weighted 1/2 and 1/2
C7_Witness ==
    /\ IsCrossfade
    /\ Len(call.a) > 0
    /\ Len(call.b) > 0
    /\ call.a[1] # Zero
    /\ ConstantAt(call.a, call.a[1])
    /\ ConstantAt(call.b, call.a[1])
    /\ OverlapSamples(call.a, call.b, window_size_ms, sample_rate) = 3
    /\ call.result[Len(call.a) - 1] = call.a[1]

\* the Track a direct call of _connect_track_sections returned
ConnectedTrack == song.trackList[1]

IsConnectCall == pc = "returned" /\ Len(song.trackList) = 1

AllHaveBuffer(sectionList) == \A k \in 1..Len(sectionList) : sectionList[k].sectionSrc.has

Join(a, b) == CrossfadeConnect(a, b, window_size_ms, sample_rate)

RECURSIVE JoinFold(_, _)
\* crossfadeJoin folded left to right over the buffers of sectionList[1..k]
JoinFold(sectionList, k) ==
    IF k = 1 THEN sectionList[1].sectionSrc.buf
    ELSE Join(JoinFold(sectionList, k - 1), sectionList[k].sectionSrc.buf)

\* C8: for a Track whose Sections all have a buffer, trackWaveData is the left
\* fold of _crossfade_connect over the Section buffers in list order: for three
\* Sections, crossfadeJoin(crossfadeJoin(s1, s2, t), s3, t).
C8_LeftFold ==
    (IsConnectCall /\ Len(ConnectedTrack.sectionList) >= 1
                   /\ AllHaveBuffer(ConnectedTrack.sectionList))
        => LET ss == ConnectedTrack.sectionList
           IN  /\ ConnectedTrack.trackWaveData.has
               /\ ConnectedTrack.trackWaveData.buf = JoinFold(ss, Len(ss))
               /\ Len(ss) = 3 =>
                     ConnectedTrack.trackWaveData.buf =
                         Join(Join(ss[1].sectionSrc.buf, ss[2].sectionSrc.buf),
                              ss[3].sectionSrc.buf)

\* three different two-sample Sections joined with a one-sample overlap
C8_Witness ==
    /\ IsConnectCall
    /\ Len(ConnectedTrack.sectionList) = 3
    /\ AllHaveBuffer(ConnectedTrack.sectionList)
    /\ \A k \in 1..3 : Len(ConnectedTrack.sectionList[k].sectionSrc.buf) = 2
    /\ ConnectedTrack.sectionList[1] # ConnectedTrack.sectionList[2]
    /\ ConnectedTrack.sectionList[2] # ConnectedTrack.sectionList[3]
    /\ WindowSamples(window_size_ms, sample_rate) = 1
    /\ Len(ConnectedTrack.trackWaveData.buf) = 4

\* the Track buffer of the same two Sections in the other order
SwappedTrackWave ==
    ConnectTrackSections(Track(<<ConnectedTrack.sectionList[2],
                                 ConnectedTrack.sectionList[1]>>), sample_rate).trackWaveData

IsTwoSectionCall ==
    /\ IsConnectCall
    /\ Len(ConnectedTrack.sectionList) = 2
    /\ AllHaveBuffer(ConnectedTrack.sectionList)

\* C9 as stated: connecting [s1, s2] and [s2, s1] gives different Track buffers
\* for any two Section buffers that are not identical.
C9_OrderSensitive ==
    (IsTwoSectionCall /\ ConnectedTrack.sectionList[1].sectionSrc
                            # ConnectedTrack.sectionList[2].sectionSrc)
        => SwappedTrackWave # ConnectedTrack.trackWaveData

\* C9 amended: the Track buffer starts with the first sample of the first
\* Section, so connecting [s1, s2] and [s2, s1] gives different Track buffers
\* whenever s1 and s2 differ in their first sample.
C9_FirstSampleDecides ==
    (IsTwoSectionCall /\ ConnectedTrack.sectionList[1].sectionSrc.buf[1]
                            # ConnectedTrack.sectionList[2].sectionSrc.buf[1])
        => /\ ConnectedTrack.trackWaveData.buf[1]
                 = ConnectedTrack.sectionList[1].sectionSrc.buf[1]
           /\ SwappedTrackWave # ConnectedTrack.trackWaveData

\* two two-sample Sections with different first samples, overlapped entirely
C9_Witness ==
    /\ IsTwoSectionCall
    /\ ConnectedTrack.sectionList[1].sectionSrc.buf[1]
          # ConnectedTrack.sectionList[2].sectionSrc.buf[1]
    /\ Len(ConnectedTrack.sectionList[1].sectionSrc.buf) = 2
    /\ Len(ConnectedTrack.sectionList[2].sectionSrc.buf) = 2
    /\ Len(ConnectedTrack.trackWaveData.buf) = 2

\* the Sections of the Song with exactly two Words, both with audio, and a buffer
TwoWordSections ==
    {sec \in UNION {{song.trackList[t].sectionList[k]
                        : k \in 1..Len(song.trackList[t].sectionList)}
                        : t \in 1..Len(song.trackList)} :
        /\ Len(sec.wordList) = 2
        /\ HasAudio(sec.wordList[1])
        /\ HasAudio(sec.wordList[2])
        /\ sec.sectionSrc.has}

\* C10 as stated: two Word buffers of m and n samples are crossfaded into a
\* Section buffer of m + n - overlapSamples samples, the window being 10 ms.
C10_CrossfadeLength ==
    \A sec \in TwoWordSections :
        LET m == Len(sec.wordList[1].oriWave.buf)
            n == Len(sec.wordList[2].oriWave.buf)
        IN  Len(sec.sectionSrc.buf)
               = m + n - Min((silence_ms * sample_rate) \div 1000, Min(m, n))

\* 0.01 * sampleRate with its fraction dropped toward zero
SilenceTruncated ==
    IF sample_rate >= 0 THEN (silence_ms * sample_rate) \div 1000
    ELSE -((silence_ms * (-sample_rate)) \div 1000)

\* C10 amended: the Words of a Section are joined by the silence-gap policy: two
\* Word buffers of m and n samples give m + n + g samples, g = int(0.01 *
\* sampleRate) truncated toward zero, the g samples between the two Words being
\* zero (1000 + 220 + 1000 = 2220 at 22050 Hz); at a rate where g is negative
\* the join raises and the Section gets no buffer.
C10_SilenceGapLength ==
    \A sec \in TwoWordSections :
        LET m == Len(sec.wordList[1].oriWave.buf)
            n == Len(sec.wordList[2].oriWave.buf)
            g == SilenceTruncated
        IN  /\ g >= 0
            /\ Len(sec.sectionSrc.buf) = m + n + g
            /\ \A i \in 1..g : sec.sectionSrc.buf[m + i] = Zero

\* two two-sample Words joined at 22050 Hz: 2 + 220 + 2 samples
C10_Witness ==
    \E sec \in TwoWordSections :
        /\ Len(sec.wordList[1].oriWave.buf) = 2
        /\ Len(sec.wordList[2].oriWave.buf) = 2
        /\ sample_rate = 22050
        /\ Len(sec.sectionSrc.buf) = 224

IsMerge == call.op = "merge"

\* the largest buffer length over the Tracks that have a buffer (0 if none has)
LongestTrack(s) ==
    LET lens == {Len(s.trackList[t].trackWaveData.buf) :
                    t \in {u \in 1..Len(s.trackList) : s.trackList[u].trackWaveData.has}}
    IN  IF lens = {} THEN 0 ELSE CHOOSE m \in lens : \A x \in lens : x <= m

RECURSIVE SumOfLonger(_, _, _)
\* the sum of sample i over the Tracks 1..k that have a buffer of i samples or more
SumOfLonger(s, k, i) ==
    IF k = 0 THEN Zero
    ELSE LET w == s.trackList[k].trackWaveData
         IN  IF w.has /\ Len(w.buf) >= i
             THEN RAdd(SumOfLonger(s, k - 1, i), w.buf[i])
             ELSE SumOfLonger(s, k - 1, i)

\* C11: _merge_tracks returns a buffer as long as the longest Track buffer, its
\* sample i being the sum of sample i of every Track whose buffer reaches i:
\* Tracks are aligned at sample 0, a shorter Track counts as zero past its end,
\* a Track without a buffer adds nothing.
C11_MergeTracks ==
    IsMerge =>
        /\ Len(call.result) = LongestTrack(song)
        /\ \A i \in 1..Len(call.result) :
              call.result[i] = SumOfLonger(song, Len(song.trackList), i)

\* a two-sample Track mixed with a one-sample Track
C11_Witness ==
    /\ IsMerge
    /\ Len(song.trackList) = 2
    /\ song.trackList[1].trackWaveData.has
    /\ song.trackList[2].trackWaveData.has
    /\ Len(song.trackList[1].trackWaveData.buf) = 1
    /\ Len(song.trackList[2].trackWaveData.buf) = 2
    /\ Len(call.result) = 2
    /\ call.result[1] = RAdd(song.trackList[1].trackWaveData.buf[1],
                             song.trackList[2].trackWaveData.buf[1])
    /\ call.result[2] = song.trackList[2].trackWaveData.buf[2]
    /\ call.result[2] # Zero

IsLimit == call.op = "limit"

\* C12: _prevent_clipping maps every sample s with |s| > 0.95 to
\* sign(s) * (0.95 + (|s| - 0.95) / 20), that is (|s| + 18.05) / 20 with the sign
\* of s, and leaves every other sample unchanged; output sample i is a function
\* of input sample i alone.
C12_SoftLimit ==
    IsLimit =>
        /\ Len(call.result) = Len(call.audio)
        /\ \A i \in 1..Len(call.audio) :
              LET n == call.audio[i][1]
                  d == call.audio[i][2]
              IN  call.result[i] =
                     IF 20 * Abs(n) > 19 * d
                     THEN Rat((IF n > 0 THEN 1 ELSE -1) * (20 * Abs(n) + 361 * d), 400 * d)
                     ELSE call.audio[i]

\* -2.95 is limited to -1.05 next to an unchanged 0.9, after a long silence
C12_Witness ==
    /\ IsLimit
    /\ Len(call.audio) > LongSilence
    /\ \E j, k \in 1..Len(call.audio) :
          /\ call.audio[j] = Rat(-59, 20) /\ call.result[j] = Rat(-21, 20)
          /\ call.audio[k] = Rat(9, 10) /\ call.result[k] = Rat(9, 10)

IsNormalize == call.op = "normalize"

\* C13: _normalize_audio multiplies every sample by one gain g, g = min(0.1 / RMS,
\* 4.0) when the RMS is > 0 and g = 1 when it is 0 (stated on squares: g^2 =
\* min(0.01 / mean(s^2), 16), which is 16 for a buffer of zeros and tiny samples
\* that is not silent, its mean square being 2^-128 or less); so g never exceeds
\* 4.0 and the RMS afterwards never exceeds 0.1.
C13_NormalizeGain ==
    (IsNormalize /\ Len(call.audio) > 0) =>
        LET ms == MeanSquare(call.audio)
            g2 == call.result.gain2
        IN  /\ call.result.audio = call.audio
            /\ AllZero(call.audio) => g2 = R(1)
            /\ ~AllZero(call.audio) =>
                  /\ g2 = IF ms[1] = 0 THEN R(16)
                          ELSE IF RLess(R(16), Rat(ms[2], 100 * ms[1]))
                          THEN R(16) ELSE Rat(ms[2], 100 * ms[1])
                  /\ RLeq(g2, R(16))
                  /\ RLeq(RMul(ms, g2), Rat(1, 100))

IsSave == call.op = "save"

\* C14: _save_wav_file quantizes every sample s to round(clip(s, -1, 1) * 32767),
\* the 16-bit integer nearest to it, for positive and negative samples alike.
C14_RoundToNearest ==
    IsSave =>
        \A i \in 1..Len(call.audio) :
            LET x == RMul(RClip(call.audio[i], -1, 1), R(32767))
                q == call.audio_int16[i]
            IN  2 * Abs(q * x[2] - x[1]) <= x[2]

\* C15: for a sample s in [-1, 1], the quantized value divided by 32767 is within
\* 1/32767 of s; for every sample the quantized value lies in [-32767, 32767].
C15_RoundTrip ==
    IsSave =>
        \A i \in 1..Len(call.audio) :
            LET s == call.audio[i]
                q == call.audio_int16[i]
            IN  /\ (RLeq(R(-1), s) /\ RLeq(s, R(1)))
                      => Abs(q * s[2] - 32767 * s[1]) <= s[2]
                /\ -32767 <= q
                /\ q <= 32767

\* 0.25 is stored as 8191 (8191.75 before the conversion), -3 as -32767
C15_Witness ==
    /\ IsSave
    /\ \E i, j \in 1..Len(call.audio) :
          /\ call.audio[i] = Rat(1, 4) /\ call.audio_int16[i] = 8191
          /\ call.audio[j] = R(-3) /\ call.audio_int16[j] = -32767

IsProcess == call.op = "process"

\* C20: every sample of _process_audio's result (soft limiting, then RMS
\* normalization) lies in [-1, 1], so the hard clip of _save_wav_file never
\* changes a sample.
C20_Bounded ==
    IsProcess =>
        \A i \in 1..Len(call.result.audio) : RLeq(SquareAt(call.result, i), R(1))

IsGenerateOutput == call.op = "generate_output"

\* no Track of the Song has a buffer with a sample in it
EmptySong(s) ==
    \A t \in 1..Len(s.trackList) :
        ~s.trackList[t].trackWaveData.has \/ Len(s.trackList[t].trackWaveData.buf) = 0

\* C17: an empty Song (no Tracks, or no Track with any audio) is rejected:
\* generate_output returns no path for it and writes no output file.
C17_EmptySongRejected ==
    (IsGenerateOutput /\ EmptySong(song)) =>
        (call.result.returned = "none" /\ call.result.file.state # "written")

IsEngineRun == run.entry # "none"

Stages == <<"Decode", "Synthesize", "PitchCorrect", "Connect", "Master">>

Started(stage) == \E i \in 1..Len(run.log) : run.log[i] = stage

\* C16: a failed run leaves no output for its Song: when decoding, speech
\* synthesis, pitch correction, connection or mastering fails, the output file
\* is neither created nor modified; a written file exists only after the
\* mastering step produced its buffer in a run that did not fail.
C16_NoOutputOnFailure ==
    IsEngineRun =>
        /\ run.failed # "none" => run.file.state \in {"absent", "old"}
        /\ run.file.state = "written" => (run.failed = "none" /\ Started("Master"))

\* every Word of the Song has a buffer from the speech stage
AllSynthesized(s) ==
    \A t \in 1..Len(s.trackList) :
        \A k \in 1..Len(s.trackList[t].sectionList) :
            \A w \in 1..Len(s.trackList[t].sectionList[k].wordList) :
                s.trackList[t].sectionList[k].wordList[w].oriWave.has

\* every Section with a Word that has audio has its pitch-corrected buffer
AllCorrected(s) ==
    \A t \in 1..Len(s.trackList) :
        \A k \in 1..Len(s.trackList[t].sectionList) :
            LET section == s.trackList[t].sectionList[k]
            IN  (\E w \in 1..Len(section.wordList) : HasAudio(section.wordList[w]))
                    => section.sectionSrc.has

\* every Track with a Section buffer has its Track buffer
AllConnected(s) ==
    \A t \in 1..Len(s.trackList) :
        (\E k \in 1..Len(s.trackList[t].sectionList) :
              s.trackList[t].sectionList[k].sectionSrc.has)
            => s.trackList[t].trackWaveData.has

\* C18: in every run of process_score the steps start in the order Decode,
\* Synthesize, PitchCorrect, Connect, Master; a step starts only when the one
\* before it has finished for the whole Song (connection starts with every
\* Section pitch-corrected); once a step fails no later step starts.
C18_StageOrder ==
    IsEngineRun =>
        /\ Len(run.log) <= Len(Stages)
        /\ \A i \in 1..Len(run.log) : run.log[i] = Stages[i]
        /\ Started("PitchCorrect") => AllSynthesized(song)
        /\ Started("Connect") => AllCorrected(song)
        /\ Started("Master") => AllConnected(song)
        /\ run.failed = "FileNotFoundError" => run.log = <<>>
        /\ run.failed \notin {"none", "FileNotFoundError"} =>
              run.log[Len(run.log)] = run.failed

\* a run over two Tracks, both with audio, that went through all five steps
C18_Witness ==
    /\ IsEngineRun
    /\ pc = "done"
    /\ run.log = Stages
    /\ run.failed = "none"
    /\ Len(song.trackList) = 2
    /\ \A t \in 1..2 : /\ song.trackList[t].trackWaveData.has
                       /\ Len(song.trackList[t].trackWaveData.buf) > 0

\* C19: process_score returns the path of the WAV file when processing succeeds
\* and returns None when it fails (missing score file or a failing step);
\* select_and_process returns None on cancel or failure and never raises.
C19_ReturnsPathOrNone ==
    (IsEngineRun /\ pc = "done") =>
        /\ run.result \in {"output_path", "None"}
        /\ run.result = "output_path" <=> (run.failed = "none" /\ Started("Master"))

\* the frames of an analysed contour that are voiced (F0 > 0)
VoicedFrames(c) == {i \in 1..Len(c) : c[i] > 0}

\* the mean F0 over the voiced frames of c, which has at least one
MeasuredHz(c) == Rat(SumVoiced(c, Len(c)), Cardinality(VoicedFrames(c)))

\* frame i of contour c scaled by target / measured, before any clamp
ScaledFrame(c, i, target) ==
    Rat(c[i] * target * MeasuredHz(c)[2], MeasuredHz(c)[1])

\* C24: on the vocoder path every frame of the F0 contour handed to the
\* resynthesis is the analysed frame scaled by targetHz / measuredHz and then
\* clamped, so it lies in [40, 800] Hz, for every buffer and every target pitch;
\* measuredHz is the mean over the voiced frames only.
C24_ContourClamped ==
    (IsAdjust /\ call.path = "vocoder") =>
        /\ Len(call.modified_f0) = Len(call.voc.f0)
        /\ \A i \in 1..Len(call.modified_f0) :
              /\ call.modified_f0[i] = RClip(ScaledFrame(call.voc.f0, i, call.target_f0),
                                             f0_floor, f0_ceil)
              /\ RLeq(R(f0_floor), call.modified_f0[i])
              /\ RLeq(call.modified_f0[i], R(f0_ceil))

\* a contour with an unvoiced frame whose voiced frame is scaled above 800 Hz
\* and clamped there: a mean over all frames would have doubled the ratio
C24_Witness ==
    /\ IsAdjust
    /\ call.path = "vocoder"
    /\ Cardinality(VoicedFrames(call.voc.f0)) < Len(call.voc.f0)
    /\ \E i \in VoicedFrames(call.voc.f0) :
          /\ RLess(R(f0_ceil), ScaledFrame(call.voc.f0, i, call.target_f0))
          /\ call.modified_f0[i] = R(f0_ceil)

\* C30: pitch modification keeps the voicing: a frame the analysis marked
\* unvoiced (F0 = 0) is still 0 in the contour handed to the resynthesis, and a
\* voiced frame is still voiced.
C30_VoicingPreserved ==
    (IsAdjust /\ call.path = "vocoder") =>
        \A i \in 1..Len(call.voc.f0) :
            (call.voc.f0[i] = 0) <=> (call.modified_f0[i] = Zero)

\* a Word that has audio to contribute: a buffer, and not an empty one
Contributes(word) == word.oriWave.has /\ word.oriWave.buf # <<>>

Contributing(wordList) == {i \in 1..Len(wordList) : Contributes(wordList[i])}

RECURSIVE ContributedSamples(_, _)
\* the samples the contributing Words among wordList[1..k] hold
ContributedSamples(wordList, k) ==
    IF k = 0 THEN 0
    ELSE ContributedSamples(wordList, k - 1)
           + (IF Contributes(wordList[k]) THEN Len(wordList[k].oriWave.buf) ELSE 0)

WithBuffer(sectionList) == SelectSeq(sectionList, LAMBDA x : x.sectionSrc.has)

WithTrackWave(trackList) == SelectSeq(trackList, LAMBDA x : x.trackWaveData.has)

PitchStageDone == pc \in {"corrected", "connect", "connected"}

\* C21: absent audio stays absent and is never replaced by zero padding.  After
\* pitch correction a Section with no contributing Word has sectionSrc = None,
\* and a Section buffer holds the samples of its contributing Words and the
\* gaps between them only; after connection a Track's trackWaveData is what the
\* Sections with a buffer give, None when there is none; and the mix is the mix
\* of the Tracks that have a trackWaveData.
C21_AbsentStaysAbsent ==
    /\ PitchStageDone =>
          \A t \in 1..Len(song.trackList) :
            \A k \in 1..Len(song.trackList[t].sectionList) :
              LET section == song.trackList[t].sectionList[k]
                  n       == Cardinality(Contributing(section.wordList))
              IN  /\ section.sectionSrc.has <=> n > 0
                  /\ section.sectionSrc.has =>
                        Len(section.sectionSrc.buf) =
                            ContributedSamples(section.wordList, Len(section.wordList))
                              + (n - 1) * SilenceSamples(sample_rate)
    /\ pc = "connected" =>
          /\ \A t \in 1..Len(song.trackList) :
                LET track == song.trackList[t]
                    kept  == WithBuffer(track.sectionList)
                IN  /\ track.trackWaveData = ConnectLoop(kept, Len(kept), sample_rate)
                    /\ kept = <<>> => track.trackWaveData = None
          /\ MergeTracks(song) = MergeTracks([trackList |-> WithTrackWave(song.trackList)])

\* a connected Song in which a Section whose only Word has no audio sits between
\* two Sections with a buffer, or a Track without any buffer beside one with
C21_Witness ==
    /\ pc = "connected"
    /\ \E t \in 1..Len(song.trackList) :
          LET sl == song.trackList[t].sectionList
          IN  /\ Len(sl) = 3
              /\ sl[1].sectionSrc.has /\ sl[3].sectionSrc.has
              /\ ~sl[2].sectionSrc.has
              /\ sl[2].wordList[1].oriWave = Some(<<>>)
              /\ song.trackList[t].trackWaveData.has

\* C23: every derived buffer is a new array: after connection no Track's
\* trackWaveData is the same array object as the sectionSrc of one of its
\* Sections, a Track with exactly one Section with audio included.
C23_FreshBuffers == pc = "connected" => alias = {}

\* the Words of a Song, Section by Section
SectionsOf(s) ==
    UNION {{s.trackList[t].sectionList[k] : k \in 1..Len(s.trackList[t].sectionList)}
              : t \in 1..Len(s.trackList)}

InOrder(wordList) ==
    \A i \in 1..(Len(wordList) - 1) : wordList[i].time.end <= wordList[i + 1].time.start

\* the millisecond span of a note, from its offset and duration alone
SpanOf(note) ==
    <<(note.offset[1] * quarter_duration_ms) \div note.offset[2],
      (note.offset[1] * quarter_duration_ms) \div note.offset[2]
        + (note.quarterLength[1] * quarter_duration_ms) \div note.quarterLength[2]>>

\* two sung notes of a part, one after the other, the first ending after the
\* second has begun
Overlapping(part) ==
    LET sung == SelectSeq(part, LAMBDA n : n.kind = "Note" /\ n.frequency >= min_frequency)
    IN  \E i \in 1..(Len(sung) - 1) : SpanOf(sung[i])[2] > SpanOf(sung[i + 1])[1]

AfterDecoding ==
    pc \in {"speech", "speaking", "loaded", "pitch", "corrected", "connect", "connected",
            "mastered"}

\* C25: every Section that reaches the speech and pitch stages through
\* process_score has its Words in time order, words[i].time.end <=
\* words[i+1].time.start; a score with overlapping notes is rejected while it is
\* decoded, before any later stage starts.
C25_WordsInOrder ==
    IsEngineRun =>
        /\ AfterDecoding => \A section \in SectionsOf(song) : InOrder(section.wordList)
        /\ (\E t \in 1..Len(run.score) : Overlapping(run.score[t])) =>
              /\ run.failed = "Decode"
              /\ run.log = <<"Decode">>
              /\ song = NoSong

\* a run over two consecutive quarter notes has passed the overlap check and
\* reached the pitch stage with both Words in one Section
C25_Witness ==
    /\ IsEngineRun
    /\ pc = "pitch"
    /\ \E section \in SectionsOf(song) :
          /\ Len(section.wordList) = 2
          /\ section.wordList[1].time.end = section.wordList[2].time.start
          /\ section.wordList[2].oriWave.has

IsProcessPart == call.op = "process_part"

\* C26: every Word the decoder returns has a time span in whole milliseconds
\* with start < end, for every offset and duration, zero-length and very short
\* notes included.
C26_PositiveSpan ==
    (IsProcessPart /\ ~call.result.raised) =>
        \A k \in 1..Len(call.result.track.sectionList) :
            \A i \in 1..Len(call.result.track.sectionList[k].wordList) :
                LET word == call.result.track.sectionList[k].wordList[i]
                IN  /\ word.time.start \in Int
                    /\ word.time.end \in Int
                    /\ word.time.start < word.time.end

\* C27: one sample rate runs through a pipeline: the buffers the speech stage
\* stores are at the rate the coder, the connector and the WAV writer were
\* built with, for every sample_rate, the default included.
C27_OneSampleRate ==
    (IsEngineRun /\ Started("Synthesize") /\ run.failed # "Synthesize") =>
        run.speech_rate = sample_rate

\* the Words of a Song, as they lie in its Tracks and Sections
WordLists(s) ==
    [t \in 1..Len(s.trackList) |->
        [k \in 1..Len(s.trackList[t].sectionList) |->
            s.trackList[t].sectionList[k].wordList]]

\* the Sections of a Song, Words and sectionSrc, as they lie in its Tracks
SectionLists(s) == [t \in 1..Len(s.trackList) |-> s.trackList[t].sectionList]

\* C22: no stage changes the data of an earlier stage.  process_song leaves
\* every Word's oriWave, pitch, time and lrc as they were; connect_song leaves
\* the Words and every sectionSrc as they were; generate_output leaves the Song,
\* sectionSrc and trackWaveData included, as it was.
C22_UpstreamUntouched ==
    [][/\ pc \in {"loaded", "pitch"} => WordLists(song') = WordLists(song)
       /\ pc \in {"corrected", "connect"} => SectionLists(song') = SectionLists(song)
       /\ pc = "connected" => song' = song]_vars

\* a run that has written its file and still holds a Word buffer, the Section
\* buffer made from it and the Track buffer made from that
C22_Witness ==
    /\ IsEngineRun
    /\ pc = "done"
    /\ run.result = "output_path"
    /\ \E t \in 1..Len(song.trackList) :
          /\ song.trackList[t].trackWaveData.has
          /\ \E k \in 1..Len(song.trackList[t].sectionList) :
                LET section == song.trackList[t].sectionList[k]
                IN  /\ section.sectionSrc.has
                    /\ Len(section.wordList) = 2
                    /\ \A w \in 1..2 : Len(section.wordList[w].oriWave.buf) > 0

IsSpeakInit == call.op = "speak_init"

\* C28: the speech engine is resolved once, when FlorenceSpeakGenerateor is
\* constructed, and the resolution ends for every set of available engines
\* (Windows only, eSpeak only, both, none): the constructor ends holding the
\* engine the priority policy names or with the no-engine error, without
\* constructing FlorenceSpeakGenerateor again, and no detection runs per Word.
C28_ResolvedOnce ==
    IsSpeakInit =>
        /\ call.constructions <= 1
        /\ call.detections <= 1
        /\ (pc = "tts_ready" /\ call.engine_type = "") =>
              call.engine = call.available[1]
        /\ (pc = "tts_failed" /\ call.engine_type = "") =>
              (call.available = <<>> /\ call.error = "no engine available")

IsAnyOrder == call.op = "any_order"

\* the Song with the buffers of the pitch and connection stages taken away
Upstream(s) ==
    [trackList |->
        [t \in 1..Len(s.trackList) |->
            [sectionList |-> [k \in 1..Len(s.trackList[t].sectionList) |->
                                 [s.trackList[t].sectionList[k] EXCEPT !.sectionSrc = None]],
             trackWaveData |-> None]]]

\* process_song run Track by Track, Section by Section, Word by Word, the
\* vocoder doing outs[i] on the i-th Word of the Song
SequentialProcess(s, outs, sr) ==
    [trackList |->
        [t \in 1..Len(s.trackList) |->
            [s.trackList[t] EXCEPT !.sectionList =
                [k \in 1..Len(@) |->
                    ProcessSection(@[k],
                                   [w \in 1..Len(@[k].wordList) |->
                                       outs[TrackWords(s, t - 1) + SectionWords(@, k - 1) + w]],
                                   sr)]]]]

\* connect_song run Track by Track
SequentialConnect(s, sr) ==
    [trackList |-> [t \in 1..Len(s.trackList) |->
                       ConnectTrackSections(s.trackList[t], sr)]]

\* C29: pitch correction of a Word reads that Word's buffer and pitch and the
\* fixed configuration only: correcting the Words of a Song in any order and
\* joining them in list order gives the Section buffers of the sequential run,
\* and connecting the Tracks in any order gives its Track buffers.
C29_OrderIndependent ==
    IsAnyOrder =>
        /\ pc = "joined" /\ call.track_order = <<>> =>
              song = SequentialProcess(Upstream(song), call.outs, sample_rate)
        /\ pc = "any_done" =>
              song = SequentialConnect(
                         SequentialProcess(Upstream(song), call.outs, sample_rate),
                         sample_rate)

\* a finished run in which the second Word of a Section was corrected before
\* the first, the two corrected buffers differ, and the second Track was
\* connected before the first
C29_Witness ==
    /\ IsAnyOrder
    /\ pc = "any_done"
    /\ call.track_order = <<2, 1>>
    /\ \E a, b \in 1..Len(call.order) :
          /\ a < b
          /\ call.order[a] = call.order[b] + 1
          /\ call.order[b] > 1
          /\ call.slots[call.order[a]] # call.slots[call.order[b]]
    /\ \A t \in 1..2 : song.trackList[t].trackWaveData.has
====
